---- MODULE Spec2Model ----
(***************************************************************************)
(* A model of the ai-music library engine: the SearchEngine query          *)
(* operations (lib/search-engine), the conversational tool layer           *)
(* (lib/ai/tools.ts, app/api/chat/route.ts), the process-wide store        *)
(* (lib/store.ts) and the library scanner (lib/music-manager).             *)
(*                                                                         *)
(* Conventions.                                                            *)
(*  - An optional field (TypeScript `x?: T`) is <<>> when undefined and    *)
(*    <<v>> when it holds v.                                               *)
(*  - A string is the sequence of its UTF-16 code units, so that           *)
(*    toLowerCase, includes and the relational operators on strings are    *)
(*    computed, not assumed.                                               *)
(*  - A BPM is a fixed-point number: the integer b stands for b/BpmScale,  *)
(*    so fractional BPMs and Math.round are computed exactly.              *)
(***************************************************************************)
EXTENDS Integers, Sequences, FiniteSets, TLC

VARIABLES
    musicManager,   \* globalForMusic.musicManager: "undefined" or "created"
    tracks,         \* SearchEngine.tracks, the backing collection
    fuse,           \* the collection the Fuse index was built from
    scan,           \* the background scan: "none", "inflight", "resolved", "rejected"
    pending,        \* a tool invocation suspended at `await getMusicStore()`
    call,           \* the last completed operation: its inputs and what it returned
    created,        \* how many managers, engines and scans the process has made
    log,            \* the console.warn / console.error lines so far: <<text, path>>
    scanner,        \* one scanDirectory call: its reads in flight and its tracks
    setlist,        \* useSetlist: the setlist state of the Home page
    localStorage,   \* the item stored under 'dj-setlist', <<>> when there is none
    currentTrack    \* Home: the track in the player, <<>> when null

vars ==
    <<musicManager, tracks, fuse, scan, pending, call, created, log, scanner,
      setlist, localStorage, currentTrack>>

\* the state of the Home page
home == <<setlist, localStorage, currentTrack>>

(***************************************************************************)
(* Bounds of the model.                                                    *)
(***************************************************************************)
MaxTracks == 3      \* longest collection of the engine-level specifications
MaxBpm == 5         \* largest BPM (in 1/BpmScale units) of those collections
BpmScale == 2       \* fixed-point resolution: a BPM unit is 1/BpmScale

(***************************************************************************)
(* Optional values and strings.                                            *)
(***************************************************************************)
None == <<>>
Some(v) == <<v>>
Has(o) == o # <<>>
Val(o) == o[1]

\* String.prototype.toLowerCase on one ASCII code unit
LowerChar(c) == IF c >= 65 /\ c <= 90 THEN c + 32 ELSE c

\* String.prototype.toLowerCase
toLowerCase(s) == [i \in 1..Len(s) |-> LowerChar(s[i])]

\* String.prototype.includes: needle occurs in hay at some offset
includes(hay, needle) ==
    \E off \in 0..(Len(hay) - Len(needle)) :
        \A i \in 1..Len(needle) : hay[off + i] = needle[i]

\* the relational operator < on two strings: lexicographic by code unit
RECURSIVE StrLess(_, _)
StrLess(a, b) ==
    IF b = <<>> THEN FALSE
    ELSE IF a = <<>> THEN TRUE
    ELSE IF Head(a) # Head(b) THEN Head(a) < Head(b)
    ELSE StrLess(Tail(a), Tail(b))

\* JavaScript truthiness of an optional number: defined and not 0
TruthyNum(o) == Has(o) /\ Val(o) # 0

\* JavaScript truthiness of an optional string: defined and not ""
TruthyStr(o) == Has(o) /\ Val(o) # <<>>

(***************************************************************************)
(* Track (types/index.ts).  id doubles as filePath; filename is required,   *)
(* the other fields are optional.                                          *)
(***************************************************************************)
Track(id, filename, title, artist, album, bpm, folder, folderPath) ==
    [id |-> id, filePath |-> id, filename |-> filename, title |-> title, artist |-> artist,
     album |-> album, bpm |-> bpm, folder |-> folder, folderPath |-> folderPath]

(***************************************************************************)
(* SearchEngine: BPM queries.                                              *)
(***************************************************************************)
\* filterByBpm: track.bpm && track.bpm >= min && track.bpm <= max
BpmPredicate(t, min, max) ==
    TruthyNum(t.bpm) /\ Val(t.bpm) >= min /\ Val(t.bpm) <= max

filterByBpm(ts, min, max) == SelectSeq(ts, LAMBDA t : BpmPredicate(t, min, max))

\* Math.round of the rational num/den (den > 0): floor(num/den + 1/2)
MathRound(num, den) == (2 * num + den) \div (2 * den)

\* Math.min(...bpms), Math.max(...bpms) of a non-empty list
SeqMin(s) == CHOOSE v \in {s[i] : i \in 1..Len(s)} : \A i \in 1..Len(s) : v <= s[i]

SeqMax(s) == CHOOSE v \in {s[i] : i \in 1..Len(s)} : \A i \in 1..Len(s) : v >= s[i]

\* bpms.reduce((sum, bpm) => sum + bpm, 0): the left fold over s[lo..hi] from
\* the accumulator sum.  The range is split at the middle and the left half is
\* evaluated first (the test on it makes TLC do so), which keeps the order of
\* the steps and the evaluation shallow on long lists.
RECURSIVE ReduceSum(_, _, _, _)
ReduceSum(sum, s, lo, hi) ==
    IF lo > hi THEN sum
    ELSE IF lo = hi THEN sum + s[lo]
    ELSE LET mid == (lo + hi) \div 2
             left == ReduceSum(sum, s, lo, mid)
         IN  IF left = left THEN ReduceSum(left, s, mid + 1, hi) ELSE left

SeqSum(s) == ReduceSum(0, s, 1, Len(s))

\* tracks.filter(track => track.bpm)
TracksWithBpm(ts) == SelectSeq(ts, LAMBDA t : TruthyNum(t.bpm))

\* getBpmStats: null, or {min, max, avg} each through Math.round
getBpmStats(ts) ==
    LET tracksWithBpm == TracksWithBpm(ts)
        bpms == [i \in 1..Len(tracksWithBpm) |-> Val(tracksWithBpm[i].bpm)]
    IN  IF Len(tracksWithBpm) = 0 THEN None
        ELSE Some([min |-> MathRound(SeqMin(bpms), BpmScale),
                   max |-> MathRound(SeqMax(bpms), BpmScale),
                   avg |-> MathRound(SeqSum(bpms), BpmScale * Len(bpms))])

(***************************************************************************)
(* SearchEngine.sortTracks.                                                *)
(***************************************************************************)
SortFields == {"title", "artist", "album", "bpm"}
SortOrders == {"asc", "desc"}

\* a plausible slip: .toLowerCase() left out
RawOrEmpty(o) == IF Has(o) THEN Val(o) ELSE <<>>

\* a.title?.toLowerCase() || ''
LowerOrEmpty(o) == IF Has(o) THEN toLowerCase(Val(o)) ELSE <<>>

\* the switch (sortBy) of the comparator: aVal, bVal
SortValue(t, sortBy) ==
    CASE sortBy = "title"  -> LowerOrEmpty(t.title)
      [] sortBy = "artist" -> LowerOrEmpty(t.artist)
      [] sortBy = "album"  -> LowerOrEmpty(t.album)
      [] sortBy = "bpm"    -> IF TruthyNum(t.bpm) THEN Val(t.bpm) ELSE 0

\* aVal < bVal, on two strings or on two numbers
ValueLess(aVal, bVal, sortBy) ==
    IF sortBy = "bpm" THEN aVal < bVal ELSE StrLess(aVal, bVal)

\* a plausible slip: `return aVal < bVal ? (asc ? -1 : 1) : (asc ? 1 : -1)`,
\* which never answers 0 for equal keys
SortCompareNoTie(a, b, sortBy, order) ==
    IF ValueLess(SortValue(a, sortBy), SortValue(b, sortBy), sortBy)
    THEN (IF order = "asc" THEN -1 ELSE 1)
    ELSE (IF order = "asc" THEN 1 ELSE -1)

\* the comparator of sortTracks
SortCompare(a, b, sortBy, order) ==
    LET aVal == SortValue(a, sortBy)
        bVal == SortValue(b, sortBy)
    IN  IF ValueLess(aVal, bVal, sortBy) THEN (IF order = "asc" THEN -1 ELSE 1)
        ELSE IF ValueLess(bVal, aVal, sortBy) THEN (IF order = "asc" THEN 1 ELSE -1)
        ELSE 0

\* Array.prototype.sort with that comparator.  ECMAScript requires the sort to
\* be stable; it is computed as an insertion sort: each element in turn goes
\* right after the last element the comparator does not put after it.
InsertTrack(s, x, sortBy, order) ==
    LET notAfter == {k \in 1..Len(s) : SortCompare(s[k], x, sortBy, order) <= 0}
        p == IF notAfter = {} THEN 0
             ELSE CHOOSE k \in notAfter : \A j \in notAfter : j <= k
    IN  SubSeq(s, 1, p) \o <<x>> \o SubSeq(s, p + 1, Len(s))

\* the insertions of rest[lo..hi], in order, into done (left half first, as in
\* ReduceSum)
RECURSIVE SortTracksFrom(_, _, _, _, _, _)
SortTracksFrom(done, rest, lo, hi, sortBy, order) ==
    IF lo > hi THEN done
    ELSE IF lo = hi THEN InsertTrack(done, rest[lo], sortBy, order)
    ELSE LET mid == (lo + hi) \div 2
             left == SortTracksFrom(done, rest, lo, mid, sortBy, order)
         IN  IF left = left
             THEN SortTracksFrom(left, rest, mid + 1, hi, sortBy, order)
             ELSE left

\* [...tracks].sort(comparator)
sortTracks(ts, sortBy, order) == SortTracksFrom(<<>>, ts, 1, Len(ts), sortBy, order)

(***************************************************************************)
(* SearchEngine.getTopFolders / getTopArtists / getTopAlbums.              *)
(* A Map<string, number> is the sequence of its entries in insertion       *)
(* order, which is the order Map.prototype.entries() yields.               *)
(***************************************************************************)
TopFields == {"artist", "album", "folder"}

FieldOf(t, field) ==
    CASE field = "artist" -> t.artist
      [] field = "album"  -> t.album
      [] field = "folder" -> t.folder
      [] field = "folderPath" -> t.folderPath

\* Map.prototype.get(key) || 0
MapGetOrZero(mp, key) ==
    IF \E i \in 1..Len(mp) : mp[i].key = key
    THEN (LET i == CHOOSE j \in 1..Len(mp) : mp[j].key = key IN mp[i].count)
    ELSE 0

\* Map.prototype.set: an existing key keeps its place, a new key goes last
MapSet(mp, key, count) ==
    IF \E i \in 1..Len(mp) : mp[i].key = key
    THEN [i \in 1..Len(mp) |-> IF mp[i].key = key
                               THEN [key |-> key, count |-> count] ELSE mp[i]]
    ELSE Append(mp, [key |-> key, count |-> count])

\* tracks.forEach(track => { if (track.artist) { ...set(artist, count + 1) } })
\* over ts[lo..hi], in order, from the map mp (left half first, as in ReduceSum)
RECURSIVE CountField(_, _, _, _, _)
CountField(ts, lo, hi, field, mp) ==
    IF lo > hi THEN mp
    ELSE IF lo = hi
         THEN LET o == FieldOf(ts[lo], field)
              IN  IF TruthyStr(o)
                  THEN MapSet(mp, Val(o), MapGetOrZero(mp, Val(o)) + 1)
                  ELSE mp
    ELSE LET mid == (lo + hi) \div 2
             left == CountField(ts, lo, mid, field, mp)
         IN  IF left = left THEN CountField(ts, mid + 1, hi, field, left) ELSE left

\* a plausible slip: (a, b) => a.count - b.count, ascending
CountCompareAscending(a, b) == a.count - b.count

\* .sort((a, b) => b.count - a.count)
CountCompare(a, b) == b.count - a.count

\* a plausible slip: an unstable sort, which puts a later entry before the
\* entries it ties with
InsertEntryUnstable(s, x) ==
    LET before == SelectSeq(s, LAMBDA e : CountCompare(e, x) < 0)
        after == SelectSeq(s, LAMBDA e : CountCompare(e, x) >= 0)
    IN  before \o <<x>> \o after

\* Array.prototype.sort with that comparator (stable insertion, as for tracks)
RECURSIVE InsertEntry(_, _)
InsertEntry(s, x) ==
    IF s = <<>> THEN <<x>>
    ELSE IF CountCompare(s[Len(s)], x) > 0
         THEN Append(InsertEntry(SubSeq(s, 1, Len(s) - 1), x), s[Len(s)])
         ELSE Append(s, x)

RECURSIVE SortEntriesFrom(_, _)
SortEntriesFrom(done, rest) ==
    IF rest = <<>> THEN done
    ELSE SortEntriesFrom(InsertEntry(done, Head(rest)), Tail(rest))

\* Array.prototype.slice(0, limit), limit >= 0
SliceTo(s, limit) == SubSeq(s, 1, IF limit < Len(s) THEN limit ELSE Len(s))

\* Array.from(counts.entries()).map(...).sort(...).slice(0, limit)
TopEntries(ts, field, limit) ==
    SliceTo(SortEntriesFrom(<<>>, CountField(ts, 1, Len(ts), field, <<>>)), limit)

getTopFolders(ts, limit) ==
    LET e == TopEntries(ts, "folder", limit)
    IN  [i \in 1..Len(e) |-> [folder |-> e[i].key, count |-> e[i].count]]

getTopArtists(ts, limit) ==
    LET e == TopEntries(ts, "artist", limit)
    IN  [i \in 1..Len(e) |-> [artist |-> e[i].key, count |-> e[i].count]]

getTopAlbums(ts, limit) ==
    LET e == TopEntries(ts, "album", limit)
    IN  [i \in 1..Len(e) |-> [album |-> e[i].key, count |-> e[i].count]]

(***************************************************************************)
(* SearchEngine.filterByArtist / filterByAlbum / filterByFolder /          *)
(* filterByFolderPath.                                                     *)
(***************************************************************************)
\* a plausible slip: the query is not lower-cased before the comparison
FieldIncludesRawQuery(t, field, query) ==
    /\ Has(FieldOf(t, field))
    /\ includes(toLowerCase(Val(FieldOf(t, field))), query)

\* track.artist?.toLowerCase().includes(lowerArtist), lowerArtist = artist.toLowerCase()
FieldIncludes(t, field, query) ==
    LET lowerQuery == toLowerCase(query)
    IN  /\ Has(FieldOf(t, field))
        /\ includes(toLowerCase(Val(FieldOf(t, field))), lowerQuery)

filterByArtist(ts, artist) ==
    SelectSeq(ts, LAMBDA t : FieldIncludes(t, "artist", artist))

filterByAlbum(ts, album) ==
    SelectSeq(ts, LAMBDA t : FieldIncludes(t, "album", album))

filterByFolder(ts, folderName) ==
    SelectSeq(ts, LAMBDA t : FieldIncludes(t, "folder", folderName))

filterByFolderPath(ts, pathSegment) ==
    SelectSeq(ts, LAMBDA t : FieldIncludes(t, "folderPath", pathSegment))

(***************************************************************************)
(* SearchEngine.search.  Fuse.js is a dependency, not code of the          *)
(* repository: its index is the collection it was built from (initFuse)    *)
(* and a search is taken to return, in index order, the indexed tracks     *)
(* with a key that contains the query up to case.  What the claims use of  *)
(* it is that the result is drawn from the indexed collection.             *)
(***************************************************************************)
FuseKeys(t) ==
    <<t.title, t.artist, t.album, Some(t.filename), t.folder, t.folderPath>>

FuseMatches(t, query) ==
    \E k \in 1..6 :
        /\ Has(FuseKeys(t)[k])
        /\ includes(toLowerCase(Val(FuseKeys(t)[k])), toLowerCase(query))

\* this.fuse.search(query).map(result => result.item)
search(index, query) == SelectSeq(index, LAMBDA t : FuseMatches(t, query))

(***************************************************************************)
(* The conversational tool layer (lib/ai/tools.ts; the same code inline    *)
(* in app/api/chat/route.ts, which spells the thresholds out).             *)
(***************************************************************************)
SUMMARY_THRESHOLD == 50
GROUPED_THRESHOLD == 10
TOP_TRACKS_LIMIT == 10
TOP_ARTISTS_LIMIT == 5
TOP_ALBUMS_LIMIT == 5

\* a plausible slip: the shown tracks sliced from the engine's collection,
\* read again, instead of from the results
SummaryTopFromEngine(results) ==
    LET topTracks == SliceTo(tracks, TOP_TRACKS_LIMIT)
    IN  [type |-> "summary",
         total |-> Len(results),
         showing |-> Len(topTracks),
         topTracks |-> topTracks,
         summary |-> [total |-> Len(results),
                      showing |-> Len(topTracks),
                      topArtists |-> getTopArtists(results, TOP_ARTISTS_LIMIT),
                      topAlbums |-> getTopAlbums(results, TOP_ALBUMS_LIMIT),
                      bpmStats |-> getBpmStats(results),
                      decades |-> <<>>]]

\* a plausible slip: the aggregates taken over the shown tracks only
SummaryOfShown(results) ==
    LET topTracks == SliceTo(results, TOP_TRACKS_LIMIT)
    IN  [type |-> "summary",
         total |-> Len(results),
         showing |-> Len(topTracks),
         topTracks |-> topTracks,
         summary |-> [total |-> Len(results),
                      showing |-> Len(topTracks),
                      topArtists |-> getTopArtists(topTracks, TOP_ARTISTS_LIMIT),
                      topAlbums |-> getTopAlbums(topTracks, TOP_ALBUMS_LIMIT),
                      bpmStats |-> getBpmStats(topTracks),
                      decades |-> <<>>]]

\* the summary branch of searchMusic / filterByBpm
SummaryResponse(results) ==
    LET topTracks == SliceTo(results, TOP_TRACKS_LIMIT)
        topArtists == getTopArtists(results, TOP_ARTISTS_LIMIT)
        topAlbums == getTopAlbums(results, TOP_ALBUMS_LIMIT)
        bpmStats == getBpmStats(results)
    IN  [type |-> "summary",
         total |-> Len(results),
         showing |-> Len(topTracks),
         topTracks |-> topTracks,
         summary |-> [total |-> Len(results),
                      showing |-> Len(topTracks),
                      topArtists |-> topArtists,
                      topAlbums |-> topAlbums,
                      bpmStats |-> bpmStats,
                      decades |-> <<>>]]

\* { type: 'full', total, tracks, grouped: true }
GroupedResponse(results) ==
    [type |-> "full", total |-> Len(results), tracks |-> results, grouped |-> TRUE]

\* a plausible slip: filterByArtist / filterByAlbum / sortResults given the
\* grouping hint of the medium band
FullResponseWithHint(results) ==
    IF Len(results) > GROUPED_THRESHOLD
    THEN [type |-> "full", total |-> Len(results), tracks |-> results, grouped |-> TRUE]
    ELSE [type |-> "full", total |-> Len(results), tracks |-> results]

\* { type: 'full', total, tracks }
FullResponse(results) ==
    [type |-> "full", total |-> Len(results), tracks |-> results]

\* a plausible slip: >= for > in the two size tests
SmartResponseInclusive(results) ==
    IF Len(results) >= SUMMARY_THRESHOLD THEN SummaryResponse(results)
    ELSE IF Len(results) >= GROUPED_THRESHOLD THEN GroupedResponse(results)
    ELSE FullResponse(results)

\* "Smart response based on result size" of searchMusic and filterByBpm
SmartResponse(results) ==
    IF Len(results) > SUMMARY_THRESHOLD THEN SummaryResponse(results)
    ELSE IF Len(results) > GROUPED_THRESHOLD THEN GroupedResponse(results)
    ELSE FullResponse(results)

\* trackIds.includes(t.id)
IdsInclude(trackIds, id) == \E k \in 1..Len(trackIds) : trackIds[k] = id

\* SearchEngine.getAllTracks
getAllTracks == tracks

\* getAllTracks().find(t => t.id === trackId): the first match, if any
FindById(trackId) ==
    LET found == SelectSeq(getAllTracks, LAMBDA t : t.id = trackId)
    IN  IF found = <<>> THEN <<>> ELSE <<found[1]>>

\* a plausible slip: sortResults looking each id of trackIds up in turn
\* (trackIds.map(id => allTracks.find(...))) instead of filtering the collection
ToolResultsInIdsOrder(inv) ==
    CASE inv.tool = "searchMusic"    -> search(fuse, inv.query)
      [] inv.tool = "filterByBpm"    -> filterByBpm(tracks, inv.min, inv.max)
      [] inv.tool = "filterByArtist" -> filterByArtist(tracks, inv.artist)
      [] inv.tool = "filterByAlbum"  -> filterByAlbum(tracks, inv.album)
      [] inv.tool = "sortResults"    ->
            LET hits == SelectSeq(inv.trackIds, LAMBDA id : FindById(id) # <<>>)
            IN  sortTracks([k \in 1..Len(hits) |-> FindById(hits[k])[1]],
                           inv.sortBy, inv.order)
      [] inv.tool \in {"addToSetlist", "playMusic"} -> FindById(inv.trackId)

\* the body of a tool's execute after `await getMusicStore()`: the local
\* `results` (`sorted`, or the `track` found) and the value returned
ToolResults(inv) ==
    CASE inv.tool = "searchMusic"    -> search(fuse, inv.query)
      [] inv.tool = "filterByBpm"    -> filterByBpm(tracks, inv.min, inv.max)
      [] inv.tool = "filterByArtist" -> filterByArtist(tracks, inv.artist)
      [] inv.tool = "filterByAlbum"  -> filterByAlbum(tracks, inv.album)
      [] inv.tool = "sortResults"    ->
            sortTracks(SelectSeq(getAllTracks,
                                 LAMBDA t : IdsInclude(inv.trackIds, t.id)),
                       inv.sortBy, inv.order)
      [] inv.tool \in {"addToSetlist", "playMusic"} -> FindById(inv.trackId)

\* a plausible slip: `if (!track) return { error: ... }` left out
TrackActionUnchecked(action, found) ==
    [action |-> action, track |-> IF found = <<>> THEN None ELSE found[1]]

\* { error: 'Track not found' } or { action, track }
TrackAction(action, found) ==
    IF found = <<>> THEN [error |-> "Track not found"]
    ELSE [action |-> action, track |-> found[1]]

ToolResponse(inv, results) ==
    CASE inv.tool \in {"searchMusic", "filterByBpm"} -> SmartResponse(results)
      [] inv.tool = "addToSetlist" -> TrackAction("add", results)
      [] inv.tool = "playMusic" -> TrackAction("play", results)
      [] OTHER -> FullResponse(results)

(***************************************************************************)
(* The directory tree under the music root that the scanner walks.  A name *)
(* is a string of code units; a path is the sequence of the names from the *)
(* root down (path.join(dir, entry.name) appends one name).                *)
(*                                                                         *)
(*   music/  1.mp3  n.txt  a/  b/                                          *)
(*   music/a/  2.mp3  3.MP3  c/                                            *)
(*   music/a/c/  4.mp3                                                     *)
(*   music/b/  5.mp3  cover (no extension)                                 *)
(***************************************************************************)
NameMusic == <<109, 117, 115, 105, 99>>     \* "music"
NameA == <<97>>                             \* "a"
NameB == <<98>>                             \* "b"
NameC == <<99>>                             \* "c"
Name1Mp3 == <<49, 46, 109, 112, 51>>        \* "1.mp3"
Name2Mp3 == <<50, 46, 109, 112, 51>>        \* "2.mp3"
Name3Mp3Upper == <<51, 46, 77, 80, 51>>     \* "3.MP3"
Name4Mp3 == <<52, 46, 109, 112, 51>>        \* "4.mp3"
Name5Mp3 == <<53, 46, 109, 112, 51>>        \* "5.mp3"
NameNTxt == <<110, 46, 116, 120, 116>>      \* "n.txt"
NameCover == <<99, 111, 118, 101, 114>>     \* "cover"
DotMp3 == <<46, 109, 112, 51>>              \* '.mp3'

\* this.rootDir
rootDir == <<NameMusic>>

\* a Dirent of readdir(dir, { withFileTypes: true })
DirEntry(name) == [name |-> name, isDirectory |-> TRUE, isFile |-> FALSE]
FileEntry(name) == [name |-> name, isDirectory |-> FALSE, isFile |-> TRUE]

\* what a successful fs.readdir(dir) yields
Readdir(dir) ==
    CASE dir = rootDir ->
           <<FileEntry(Name1Mp3), FileEntry(NameNTxt), DirEntry(NameA), DirEntry(NameB)>>
      [] dir = <<NameMusic, NameA>> ->
           <<FileEntry(Name2Mp3), FileEntry(Name3Mp3Upper), DirEntry(NameC)>>
      [] dir = <<NameMusic, NameA, NameC>> -> <<FileEntry(Name4Mp3)>>
      [] dir = <<NameMusic, NameB>> -> <<FileEntry(Name5Mp3), FileEntry(NameCover)>>
      [] OTHER -> <<>>

Dirs ==
    {rootDir, <<NameMusic, NameA>>, <<NameMusic, NameA, NameC>>, <<NameMusic, NameB>>}

\* path.extname(name): from the last '.' to the end; '' when there is no '.'
\* or the only one is the first character
extname(name) ==
    LET dots == {i \in 2..Len(name) : name[i] = 46}
    IN  IF dots = {} THEN <<>>
        ELSE LET last == CHOOSE i \in dots : \A j \in dots : j <= i
             IN  SubSeq(name, last, Len(name))

\* entry.isFile() && path.extname(entry.name).toLowerCase() === '.mp3'
IsMp3(entry) == entry.isFile /\ toLowerCase(extname(entry.name)) = DotMp3

\* the entries of a directory, as a set
EntriesOf(dir) == {Readdir(dir)[k] : k \in 1..Len(Readdir(dir))}

\* the paths of the sub-directories and of the MP3 files of a directory
SubDirsOf(dir) == {Append(dir, e.name) : e \in {e \in EntriesOf(dir) : e.isDirectory}}
Mp3FilesOf(dir) == {Append(dir, e.name) : e \in {e \in EntriesOf(dir) : IsMp3(e)}}

Mp3Files == UNION {Mp3FilesOf(d) : d \in Dirs}

\* a scanDirectory call that has not been made
ScannerIdle ==
    [phase |-> "idle",
     hung |-> {},
     dir |-> [d \in Dirs |-> "idle"],
     file |-> [f \in Mp3Files |-> "idle"],
     tracks |-> <<>>,
     result |-> None]

\* the instances made so far: none, and one of each
NoInstances == [managers |-> 0, engines |-> 0, scans |-> 0]
OneOfEach == [managers |-> 1, engines |-> 1, scans |-> 1]

(***************************************************************************)
(* The state of a freshly constructed engine over a given collection       *)
(* (new SearchEngine(tracks)), with no operation run yet.                  *)
(***************************************************************************)
Idle == [op |-> "idle"]

EngineOver(ts) ==
    /\ musicManager = "created"
    /\ tracks = ts
    /\ fuse = ts
    /\ scan = "resolved"
    /\ pending = None
    /\ call = Idle
    /\ created = OneOfEach
    /\ log = {}
    /\ scanner = ScannerIdle
    /\ setlist = <<>>
    /\ localStorage = None
    /\ currentTrack = None

(***************************************************************************)
(* SpecBpm: the BPM queries over every collection of at most MaxTracks     *)
(* tracks whose BPM is absent, 0, or any value up to MaxBpm units.         *)
(***************************************************************************)
OptBpm == {None} \cup {Some(b) : b \in 0..MaxBpm}

BpmTrack(i, bpm) == Track(i, <<102>>, Some(<<97>>), None, None, bpm, None, None)

BpmCollections ==
    UNION {{[i \in 1..n |-> BpmTrack(i, b[i])] : b \in [1..n -> OptBpm]}
           : n \in 0..MaxTracks}

InitBpm == \E ts \in BpmCollections : EngineOver(ts)

EngineFilterByBpm ==
    \E min \in 0..MaxBpm, max \in 0..MaxBpm :
        /\ call' = [op |-> "filterByBpm", min |-> min, max |-> max,
                    out |-> filterByBpm(tracks, min, max)]
        /\ UNCHANGED <<musicManager, tracks, fuse, scan, pending, created, log, scanner, home>>

\* getBpmStats over the collection, or over the last filter's result
EngineGetBpmStats ==
    \E input \in {tracks} \cup (IF call.op = "filterByBpm" THEN {call.out} ELSE {}) :
        /\ call' = [op |-> "getBpmStats", input |-> input, out |-> getBpmStats(input)]
        /\ UNCHANGED <<musicManager, tracks, fuse, scan, pending, created, log, scanner, home>>

NextBpm == EngineFilterByBpm \/ EngineGetBpmStats

SpecBpm == InitBpm /\ [][NextBpm]_vars

\* C1: filterByBpm(min, max) returns exactly the tracks of the collection whose
\* BPM is present and lies in [min, max], both bounds inclusive, in collection
\* order: none out of range, none with absent BPM, none in range left out.
C1_FilterByBpmExact ==
    call.op = "filterByBpm" =>
        LET want == {i \in 1..Len(tracks) :
                        /\ Has(tracks[i].bpm)
                        /\ call.min <= Val(tracks[i].bpm)
                        /\ Val(tracks[i].bpm) <= call.max}
        IN  /\ {call.out[k].id : k \in 1..Len(call.out)} = {tracks[i].id : i \in want}
            /\ Len(call.out) = Cardinality(want)

\* C2: getBpmStats returns null exactly when no track of its input has a BPM;
\* otherwise integers min, max, avg over the tracks that have one, the rounded
\* smallest, largest and mean BPM, with min <= avg <= max.
C2_BpmStatsNullIff ==
    call.op = "getBpmStats" =>
        LET have == {i \in 1..Len(call.input) : Has(call.input[i].bpm)}
            vals == {Val(call.input[i].bpm) : i \in have}
        IN  /\ (call.out = None) <=> (have = {})
            /\ call.out # None =>
                 LET st == Val(call.out)
                 IN  /\ \E v \in vals : (\A w \in vals : v <= w)
                                        /\ st.min = MathRound(v, BpmScale)
                     /\ \E v \in vals : (\A w \in vals : v >= w)
                                        /\ st.max = MathRound(v, BpmScale)
                     /\ st.min <= st.avg /\ st.avg <= st.max

(***************************************************************************)
(* SpecSort: sortTracks over every collection of at most MaxTracks tracks  *)
(* drawn from a library whose keys are absent, empty, equal up to case,    *)
(* and different; BPM keys absent, 0, equal and different.                 *)
(***************************************************************************)
SortLibrary ==
    { <<Some(<<97>>),     None,             Some(<<66>>),     None>>,
      <<Some(<<65>>),     Some(<<>>),       Some(<<98>>),     Some(0)>>,
      <<Some(<<66>>),     Some(<<97>>),     None,             Some(3)>>,
      <<Some(<<98>>),     Some(<<65>>),     Some(<<>>),       Some(3)>>,
      <<None,             Some(<<66>>),     Some(<<97>>),     Some(2)>>,
      <<Some(<<>>),       Some(<<98>>),     Some(<<65>>),     Some(5)>>,
      <<Some(<<97, 98>>), Some(<<65, 98>>), Some(<<97, 66>>), Some(1)>> }

SortTrack(i, row) == Track(i, <<102>>, row[1], row[2], row[3], row[4], None, None)

SortCollections ==
    UNION {{[i \in 1..n |-> SortTrack(i, r[i])] : r \in [1..n -> SortLibrary]}
           : n \in 0..MaxTracks}

InitSort == \E ts \in SortCollections : EngineOver(ts)

\* a plausible slip: tracks.sort(...) for [...tracks].sort(...), which sorts
\* the caller's array itself
InputSortedInPlace(ts, sortBy, order) == sortTracks(ts, sortBy, order)

\* the caller's array after sortTracks(tracks, sortBy, order): the sort works
\* on the copy [...tracks]
InputAfterSortTracks(ts, sortBy, order) == ts

\* sortTracks called on the engine's own collection
EngineSortTracks ==
    \E sortBy \in SortFields, order \in SortOrders :
        /\ call' = [op |-> "sortTracks", sortBy |-> sortBy, order |-> order,
                    input |-> tracks, out |-> sortTracks(tracks, sortBy, order)]
        /\ tracks' = InputAfterSortTracks(tracks, sortBy, order)
        /\ UNCHANGED <<musicManager, fuse, scan, pending, created, log, scanner, home>>

NextSort == EngineSortTracks

SpecSort == InitSort /\ [][NextSort]_vars

\* the sort key the claims speak of: the case-folded string (missing as the
\* empty string), or the BPM (missing as 0)
SortKey(t, field) ==
    IF field = "bpm" THEN (IF Has(t.bpm) THEN Val(t.bpm) ELSE 0)
    ELSE LET o == CASE field = "title" -> t.title
                    [] field = "artist" -> t.artist
                    [] field = "album" -> t.album
         IN  IF Has(o) THEN [i \in 1..Len(Val(o)) |-> LowerChar(Val(o)[i])] ELSE <<>>

SortKeyLess(a, b, field) ==
    IF field = "bpm" THEN SortKey(a, field) < SortKey(b, field)
    ELSE StrLess(SortKey(a, field), SortKey(b, field))

\* C3: sortTracks is stable for each field and both orders: the output is a
\* permutation of the input, ordered by key (non-decreasing for asc,
\* non-increasing for desc), and two tracks with equal key keep their input order.
C3_SortStableOrdered ==
    call.op = "sortTracks" =>
        LET inp == call.input
            out == call.out
            f == call.sortBy
            pos(i) == CHOOSE k \in 1..Len(out) : out[k].id = inp[i].id
        IN  /\ Len(out) = Len(inp)
            /\ \A i \in 1..Len(inp) : \E k \in 1..Len(out) : out[k] = inp[i]
            /\ \A k \in 1..(Len(out) - 1) :
                 IF call.order = "asc"
                 THEN ~SortKeyLess(out[k + 1], out[k], f)
                 ELSE ~SortKeyLess(out[k], out[k + 1], f)
            /\ \A i \in 1..Len(inp), j \in 1..Len(inp) :
                 (i < j /\ SortKey(inp[i], f) = SortKey(inp[j], f)) => pos(i) < pos(j)

\* a descending sort that had to move tracks and met two different raw values
\* with one key ("A" and "a"), which stayed in input order
C3_Witness ==
    /\ call.op = "sortTracks"
    /\ call.order = "desc"
    /\ call.sortBy = "title"
    /\ call.out # call.input
    /\ \E i \in 1..Len(call.input), j \in 1..Len(call.input) :
         /\ i < j
         /\ call.input[i].title # call.input[j].title
         /\ SortKey(call.input[i], "title") = SortKey(call.input[j], "title")

(***************************************************************************)
(* SpecTop: the top-N aggregates over every collection of at most          *)
(* MaxTopTracks tracks whose artist is absent, empty, or one of three      *)
(* names (album and folder take the next values of the same cycle), and    *)
(* every limit up to MaxLimit.                                             *)
(***************************************************************************)
MaxTopTracks == 4
MaxLimit == 3

TopCycle == <<None, Some(<<>>), Some(<<97>>), Some(<<98>>), Some(<<99>>)>>

TopTrack(i, v) ==
    Track(i, <<102>>, Some(<<97>>), TopCycle[v], TopCycle[(v % 5) + 1], None,
          TopCycle[((v + 1) % 5) + 1], None)

TopCollections ==
    UNION {{[i \in 1..n |-> TopTrack(i, v[i])] : v \in [1..n -> 1..5]}
           : n \in 0..MaxTopTracks}

InitTop == \E ts \in TopCollections : EngineOver(ts)

EngineGetTopFolders ==
    \E limit \in 0..MaxLimit :
        /\ call' = [op |-> "getTop", field |-> "folder", input |-> tracks,
                    limit |-> limit, out |-> getTopFolders(tracks, limit)]
        /\ UNCHANGED <<musicManager, tracks, fuse, scan, pending, created, log, scanner, home>>

EngineGetTopArtists ==
    \E limit \in 0..MaxLimit :
        /\ call' = [op |-> "getTop", field |-> "artist", input |-> tracks,
                    limit |-> limit, out |-> getTopArtists(tracks, limit)]
        /\ UNCHANGED <<musicManager, tracks, fuse, scan, pending, created, log, scanner, home>>

EngineGetTopAlbums ==
    \E limit \in 0..MaxLimit :
        /\ call' = [op |-> "getTop", field |-> "album", input |-> tracks,
                    limit |-> limit, out |-> getTopAlbums(tracks, limit)]
        /\ UNCHANGED <<musicManager, tracks, fuse, scan, pending, created, log, scanner, home>>

NextTop == EngineGetTopFolders \/ EngineGetTopArtists \/ EngineGetTopAlbums

SpecTop == InitTop /\ [][NextTop]_vars

\* the value an entry of a getTop* result carries
EntryValue(e, field) ==
    CASE field = "artist" -> e.artist
      [] field = "album"  -> e.album
      [] field = "folder" -> e.folder

\* how many tracks of inp carry the value v in the field
Occurrences(inp, field, v) ==
    Cardinality({i \in 1..Len(inp) : FieldOf(inp[i], field) = Some(v)})

\* the index of the first track of inp that carries v
FirstSeen(inp, field, v) ==
    CHOOSE i \in 1..Len(inp) :
        /\ FieldOf(inp[i], field) = Some(v)
        /\ \A j \in 1..(i - 1) : FieldOf(inp[j], field) # Some(v)

\* the top-N contract over a given set of values
TopContract(vals) ==
    LET inp == call.input
        out == call.out
        f == call.field
        shown == {EntryValue(out[j], f) : j \in 1..Len(out)}
    IN  /\ Len(out) <= call.limit
        /\ \A j \in 1..(Len(out) - 1) : out[j].count >= out[j + 1].count
        /\ \A j \in 1..Len(out) :
             /\ EntryValue(out[j], f) \in vals
             /\ out[j].count = Occurrences(inp, f, EntryValue(out[j], f))
        /\ \A v \in vals \ shown : \A j \in 1..Len(out) :
             Occurrences(inp, f, v) <= out[j].count

\* C4 as stated: getTopArtists/Albums/Folders(tracks, k) returns at most k
\* entries, sorted by non-increasing count, each count the number of tracks
\* carrying that value (absent fields not counted), and every omitted value of
\* the field has a count <= the smallest returned count.
C4_TopNAsStated ==
    call.op = "getTop" =>
        TopContract({Val(FieldOf(call.input[i], call.field)) :
                       i \in {i \in 1..Len(call.input) :
                                Has(FieldOf(call.input[i], call.field))}})

\* C4 as amended: the same, with tracks whose field is absent or the empty
\* string not counted, and every omitted non-empty value having a count <= the
\* smallest returned count.
C4_TopNNonEmpty ==
    call.op = "getTop" =>
        TopContract({Val(FieldOf(call.input[i], call.field)) :
                       i \in {i \in 1..Len(call.input) :
                                /\ Has(FieldOf(call.input[i], call.field))
                                /\ Val(FieldOf(call.input[i], call.field)) # <<>>}})

\* a truncating call: two entries returned with different counts, a third
\* value omitted, over an input that also holds an absent and an empty field
C4_Witness ==
    /\ call.op = "getTop"
    /\ call.limit = 2
    /\ Len(call.out) = 2
    /\ call.out[1].count > call.out[2].count
    /\ \E i \in 1..Len(call.input) :
         /\ TruthyStr(FieldOf(call.input[i], call.field))
         /\ \A j \in 1..2 : EntryValue(call.out[j], call.field)
                              # Val(FieldOf(call.input[i], call.field))

\* C5: entries with equal counts are in the order their values first appear in
\* the input, with no other secondary key, and truncation keeps the earliest
\* encountered of the tied values.
C5_TiesByEncounter ==
    call.op = "getTop" =>
        LET inp == call.input
            out == call.out
            f == call.field
            counted == {Val(FieldOf(inp[i], f)) :
                          i \in {i \in 1..Len(inp) : TruthyStr(FieldOf(inp[i], f))}}
            shown == {EntryValue(out[j], f) : j \in 1..Len(out)}
        IN  /\ \A j \in 1..Len(out), k \in 1..Len(out) :
                 (j < k /\ out[j].count = out[k].count) =>
                     FirstSeen(inp, f, EntryValue(out[j], f))
                       < FirstSeen(inp, f, EntryValue(out[k], f))
            /\ \A u \in counted, v \in shown :
                 (/\ Occurrences(inp, f, u) = Occurrences(inp, f, v)
                  /\ FirstSeen(inp, f, u) < FirstSeen(inp, f, v)) => u \in shown

\* two tied entries returned against alphabetical order ("b" before "a"),
\* and a third tied value, met later, cut off by the limit
C5_Witness ==
    /\ call.op = "getTop"
    /\ call.field = "artist"
    /\ Len(call.out) = 2
    /\ call.out[1].count = call.out[2].count
    /\ StrLess(call.out[2].artist, call.out[1].artist)
    /\ \E i \in 1..Len(call.input) :
         /\ call.input[i].artist = Some(<<99>>)
         /\ Occurrences(call.input, "artist", <<99>>) = call.out[2].count
         /\ \A j \in 1..2 : call.out[j].artist # <<99>>

(***************************************************************************)
(* SpecFilter: the substring filters over every collection of at most      *)
(* MaxTracks tracks whose artist is absent, empty, "@Eurodance Brazil",    *)
(* "Genres/@Eurodance Brazil" or "Trance" (album, folder and folderPath    *)
(* take the next values of the same cycle), and a set of queries with and  *)
(* without upper-case letters and "@".                                     *)
(***************************************************************************)
StrEurodanceBrazil ==   \* "@Eurodance Brazil"
    <<64, 69, 117, 114, 111, 100, 97, 110, 99, 101, 32, 66, 114, 97, 122, 105, 108>>
StrGenresEurodance ==   \* "Genres/@Eurodance Brazil"
    <<71, 101, 110, 114, 101, 115, 47>> \o StrEurodanceBrazil
StrTrance == <<84, 114, 97, 110, 99, 101>>                         \* "Trance"
QueryEurodanceBrazil ==   \* "eurodance brazil"
    <<101, 117, 114, 111, 100, 97, 110, 99, 101, 32, 98, 114, 97, 122, 105, 108>>
QueryAtEurodance == <<64, 101, 117, 114, 111, 100, 97, 110, 99, 101>>   \* "@eurodance"
QueryAtEurodanceCap == <<64, 69, 117, 114, 111, 100, 97, 110, 99, 101>> \* "@Eurodance"
QueryTranceUpper == <<84, 82, 65, 78, 67, 69>>                     \* "TRANCE"
QueryBrazilAt == <<98, 114, 97, 122, 105, 108, 64>>                \* "brazil@"

FilterCycle ==
    <<None, Some(<<>>), Some(StrEurodanceBrazil), Some(StrGenresEurodance),
      Some(StrTrance)>>

FilterQueries ==
    {<<>>, QueryEurodanceBrazil, QueryAtEurodance, QueryAtEurodanceCap,
     QueryTranceUpper, QueryBrazilAt}

FilterTrack(i, v) ==
    Track(i, <<102>>, Some(<<97>>), FilterCycle[v], FilterCycle[(v % 5) + 1], None,
          FilterCycle[((v + 1) % 5) + 1], FilterCycle[((v + 2) % 5) + 1])

FilterCollections ==
    UNION {{[i \in 1..n |-> FilterTrack(i, v[i])] : v \in [1..n -> 1..5]}
           : n \in 0..MaxTracks}

InitFilter == \E ts \in FilterCollections : EngineOver(ts)

EngineFilterByArtist ==
    \E q \in FilterQueries :
        /\ call' = [op |-> "filterBy", field |-> "artist", query |-> q,
                    out |-> filterByArtist(tracks, q)]
        /\ UNCHANGED <<musicManager, tracks, fuse, scan, pending, created, log, scanner, home>>

EngineFilterByAlbum ==
    \E q \in FilterQueries :
        /\ call' = [op |-> "filterBy", field |-> "album", query |-> q,
                    out |-> filterByAlbum(tracks, q)]
        /\ UNCHANGED <<musicManager, tracks, fuse, scan, pending, created, log, scanner, home>>

EngineFilterByFolder ==
    \E q \in FilterQueries :
        /\ call' = [op |-> "filterBy", field |-> "folder", query |-> q,
                    out |-> filterByFolder(tracks, q)]
        /\ UNCHANGED <<musicManager, tracks, fuse, scan, pending, created, log, scanner, home>>

EngineFilterByFolderPath ==
    \E q \in FilterQueries :
        /\ call' = [op |-> "filterBy", field |-> "folderPath", query |-> q,
                    out |-> filterByFolderPath(tracks, q)]
        /\ UNCHANGED <<musicManager, tracks, fuse, scan, pending, created, log, scanner, home>>

NextFilter ==
    \/ EngineFilterByArtist
    \/ EngineFilterByAlbum
    \/ EngineFilterByFolder
    \/ EngineFilterByFolderPath

SpecFilter == InitFilter /\ [][NextFilter]_vars

\* two code units are the same character up to ASCII letter case
SameLetter(a, b) ==
    \/ a = b
    \/ a >= 65 /\ a <= 90 /\ b = a + 32
    \/ b >= 65 /\ b <= 90 /\ a = b + 32

\* the query occurs in the string, character for character up to case
OccursIgnoringCase(str, query) ==
    \E off \in 0..(Len(str) - Len(query)) :
        \A i \in 1..Len(query) : SameLetter(str[off + i], query[i])

\* C6: each field filter returns exactly the tracks whose field is present and
\* contains the query as a literal, case-insensitive substring, in collection
\* order; a track with the field absent is never returned; "@" is an ordinary
\* character: folder "@Eurodance Brazil" is matched by "eurodance brazil" and
\* by "@eurodance".
C6_FilterLiteralSubstring ==
    call.op = "filterBy" =>
        /\ call.out = SelectSeq(tracks, LAMBDA t :
                         /\ Has(FieldOf(t, call.field))
                         /\ OccursIgnoringCase(Val(FieldOf(t, call.field)), call.query))
        /\ \A k \in 1..Len(call.out) : Has(FieldOf(call.out[k], call.field))
        /\ (call.field = "folder" /\ call.query \in {QueryEurodanceBrazil, QueryAtEurodance}) =>
             \A i \in 1..Len(tracks) :
                 tracks[i].folder = Some(StrEurodanceBrazil) =>
                     \E k \in 1..Len(call.out) : call.out[k] = tracks[i]

\* filterByFolder("@eurodance") over a collection with a "@Eurodance Brazil"
\* folder, a folder without the query and a track with no folder: only the
\* first is returned
C6_Witness ==
    /\ call.op = "filterBy"
    /\ call.field = "folder"
    /\ call.query = QueryAtEurodance
    /\ Len(tracks) = 3
    /\ Len(call.out) = 1
    /\ call.out[1].folder = Some(StrEurodanceBrazil)
    /\ \E i \in 1..3 : tracks[i].folder = None
    /\ \E i \in 1..3 : tracks[i].folder = Some(StrTrance)

(***************************************************************************)
(* Spec: the process.  The store is created by the first getMusicStore     *)
(* call, which starts the background scan; the scan's completion handler   *)
(* installs the scanned collection; tools are invoked at any time, each    *)
(* suspending once at `await getMusicStore()` and then running its body    *)
(* to completion (JavaScript runs a synchronous body without interleaving).*)
(***************************************************************************)
MaxScan == 75       \* largest scanned library

\* the library a scan of n files yields: every title is "a"; the first ten
\* tracks are by "x" on album "y", later ones by "b"/"c" on "d"/"e"; some
\* tracks have no artist, album or BPM; BPMs spread both ways from 250 units
ScannedTrack(i) ==
    Track(i, <<102>>, Some(<<97>>),
          IF i % 7 = 0 THEN None
          ELSE IF i <= 10 THEN Some(<<120>>)
          ELSE IF i % 3 = 0 THEN Some(<<99>>) ELSE Some(<<98>>),
          IF i % 4 = 0 THEN None
          ELSE IF i <= 10 THEN Some(<<121>>)
          ELSE IF i % 2 = 0 THEN Some(<<100>>) ELSE Some(<<101>>),
          IF i % 5 = 0 THEN None
          ELSE IF i % 2 = 1 THEN Some(250 + i) ELSE Some(250 - i),
          None, None)

ScannedLibrary(n) == [i \in 1..n |-> ScannedTrack(i)]

\* the arguments the conversational model calls the tools with
ToolInvocations ==
    {[tool |-> "searchMusic", query |-> q] : q \in {<<97>>, <<66>>, <<122, 122>>}}
    \cup {[tool |-> "filterByBpm", min |-> r[1], max |-> r[2]] :
            r \in {<<0, 1000>>, <<250, 1000>>, <<245, 255>>}}
    \cup {[tool |-> "filterByArtist", artist |-> q] : q \in {<<>>, <<66>>}}
    \cup {[tool |-> "filterByAlbum", album |-> q] : q \in {<<>>, <<100>>}}
    \cup {[tool |-> "sortResults", sortBy |-> f, order |-> o, trackIds |-> ids] :
            f \in {"artist", "bpm"}, o \in SortOrders,
            ids \in {[k \in 1..MaxScan |-> k], <<3, 1, 3, 0, 12, 2>>}}
    \cup {[tool |-> t, trackId |-> id] :
            t \in {"addToSetlist", "playMusic"}, id \in {0, 1}}

Init ==
    /\ musicManager = "undefined"
    /\ tracks = <<>>
    /\ fuse = <<>>
    /\ scan = "none"
    /\ pending = None
    /\ call = Idle
    /\ created = NoInstances
    /\ log = {}
    /\ scanner = ScannerIdle
    /\ setlist = <<>>
    /\ localStorage = None
    /\ currentTrack = None

\* a plausible slip: the collection replaced without rebuilding the index
SetTracksStaleIndex(newTracks) ==
    /\ tracks' = newTracks
    /\ fuse' = fuse

\* a plausible slip: the index rebuilt from the new list without keeping it
\* as the collection
SetTracksIndexOnly(newTracks) ==
    /\ tracks' = tracks
    /\ fuse' = newTracks

\* SearchEngine.setTracks: this.tracks = tracks; this.initFuse()
setTracks(newTracks) ==
    /\ tracks' = newTracks
    /\ fuse' = newTracks

\* the two objects a getMusicStore call returns, each named by the ordinal of
\* its creation
StoreOf(c) == [musicManager |-> c.managers, searchEngine |-> c.engines]

\* a plausible slip: the `if (!globalForMusic.musicManager)` guard left out
GetMusicStoreUnguarded ==
    /\ musicManager' = "created"
    /\ setTracks(<<>>)
    /\ scan' = "inflight"
    /\ created' = [managers |-> created.managers + 1,
                   engines |-> created.engines + 1,
                   scans |-> created.scans + 1]

\* a plausible slip: the engine created over a cached list instead of []
GetMusicStoreSeeded ==
    IF musicManager = "undefined"
    THEN /\ musicManager' = "created"
         /\ setTracks(ScannedLibrary(1))
         /\ scan' = "inflight"
         /\ created' = [managers |-> created.managers + 1,
                        engines |-> created.engines + 1,
                        scans |-> created.scans + 1]
    ELSE UNCHANGED <<musicManager, tracks, fuse, scan, created>>

\* getMusicStore: the first call creates the manager and an engine over [],
\* and starts the scan; every call returns the same two objects
getMusicStore ==
    IF musicManager = "undefined"
    THEN /\ musicManager' = "created"
         /\ setTracks(<<>>)
         /\ scan' = "inflight"
         /\ created' = [managers |-> created.managers + 1,
                        engines |-> created.engines + 1,
                        scans |-> created.scans + 1]
    ELSE UNCHANGED <<musicManager, tracks, fuse, scan, created>>

\* POST of the chat route awaiting the store before any tool runs
GetMusicStore ==
    /\ pending = None
    /\ getMusicStore
    /\ call' = [op |-> "getMusicStore", store |-> StoreOf(created'), during |-> scan']
    /\ UNCHANGED <<pending, log, scanner, home>>

\* a tool's execute up to `await getMusicStore()`
ToolBegin ==
    \E inv \in ToolInvocations :
        /\ pending = None
        /\ getMusicStore
        /\ pending' = Some([inv |-> inv, began |-> scan', store |-> StoreOf(created')])
        /\ call' = Idle
        /\ UNCHANGED <<log, scanner, home>>

\* the scan's completion handler: scanDirectory().then(tracks => setTracks(tracks))
ScanResolve ==
    \E n \in 0..MaxScan :
        /\ scan = "inflight"
        /\ setTracks(ScannedLibrary(n))
        /\ scan' = "resolved"
        /\ UNCHANGED <<musicManager, pending, call, created, log, scanner, home>>

\* a plausible slip: the rejection swallowed without a log line
ScanRejectUnlogged ==
    /\ scan = "inflight"
    /\ scan' = "rejected"
    /\ UNCHANGED <<musicManager, tracks, fuse, pending, call, created, log, scanner, home>>

\* the scan's failure handler: .catch(err => console.error("Background scan
\* failed:", err)) leaves the engine as it is
ScanReject ==
    /\ scan = "inflight"
    /\ scan' = "rejected"
    /\ log' = log \cup {<<"Background scan failed", <<>>>>}
    /\ UNCHANGED <<musicManager, tracks, fuse, pending, call, created, scanner, home>>

\* a plausible slip: the tool awaiting the scan before it answers
ToolRunAfterScan ==
    /\ pending # None
    /\ scan # "inflight"
    /\ LET inv == Val(pending).inv
           results == ToolResults(inv)
       IN  call' = [op |-> inv.tool, inv |-> inv, began |-> Val(pending).began,
                    ran |-> scan, store |-> Val(pending).store,
                    snapshot |-> getAllTracks, results |-> results,
                    response |-> ToolResponse(inv, results)]
    /\ pending' = None
    /\ UNCHANGED <<musicManager, tracks, fuse, scan, created, log, scanner, home>>

\* the rest of the tool's execute, run to completion on the installed engine
ToolRun ==
    /\ pending # None
    /\ LET inv == Val(pending).inv
           results == ToolResults(inv)
       IN  call' = [op |-> inv.tool, inv |-> inv, began |-> Val(pending).began,
                    ran |-> scan, store |-> Val(pending).store,
                    snapshot |-> getAllTracks, results |-> results,
                    response |-> ToolResponse(inv, results)]
    /\ pending' = None
    /\ UNCHANGED <<musicManager, tracks, fuse, scan, created, log, scanner, home>>

Next == GetMusicStore \/ ToolBegin \/ ScanResolve \/ ScanReject \/ ToolRun

Spec == Init /\ [][Next]_vars

\* the tools whose response the "smart response" code shapes, and all five
\* query tools
ShapedTools == {"searchMusic", "filterByBpm"}
QueryTools ==
    {"searchMusic", "filterByBpm", "filterByArtist", "filterByAlbum", "sortResults"}

\* the response carries the grouping flag
IsGrouped(r) == "grouped" \in DOMAIN r /\ r.grouped = TRUE

\* C7: the shaped response depends on the result size n alone: n > T_summary
\* gives type 'summary'; T_grouped < n <= T_summary gives type 'full' with
\* grouped = true; n <= T_grouped gives type 'full' with no grouped flag.  With
\* T_summary = 50 and T_grouped = 10: 75 gives summary, 30 full and grouped,
\* 8 full ungrouped, and the boundaries 50 and 10 fall in the lower band.
C7_ShapeBySize ==
    /\ SUMMARY_THRESHOLD = 50
    /\ GROUPED_THRESHOLD = 10
    /\ call.op \in ShapedTools =>
        LET n == Len(call.results)
            r == call.response
        IN  /\ n > SUMMARY_THRESHOLD => r.type = "summary"
            /\ (n > GROUPED_THRESHOLD /\ n <= SUMMARY_THRESHOLD) =>
                 r.type = "full" /\ IsGrouped(r)
            /\ n <= GROUPED_THRESHOLD =>
                 r.type = "full" /\ "grouped" \notin DOMAIN r
            /\ n = 75 => r.type = "summary"
            /\ n = 30 => r.type = "full" /\ IsGrouped(r)
            /\ n = 8 => r.type = "full" /\ "grouped" \notin DOMAIN r
            /\ n = 50 => r.type = "full" /\ IsGrouped(r)
            /\ n = 10 => r.type = "full" /\ "grouped" \notin DOMAIN r

\* a search with exactly 50 results, answered in full with the grouping flag
C7_Witness ==
    /\ call.op = "searchMusic"
    /\ Len(call.results) = 50
    /\ call.response.type = "full"
    /\ IsGrouped(call.response)
    /\ call.response.tracks = call.results

\* C8: in a summary response topTracks is the first N tracks of the result set
\* in the query's order, showing = |topTracks| <= N, total = the size of the
\* whole result set, and topArtists, topAlbums and bpmStats are computed over
\* the entire result set, not over the shown tracks.
C8_SummaryOverWholeSet ==
    (call.op \in QueryTools /\ call.response.type = "summary") =>
        LET res == call.results
            r == call.response
            s == r.summary
        IN  /\ r.topTracks = SubSeq(res, 1, TOP_TRACKS_LIMIT)
            /\ r.showing = Len(r.topTracks)
            /\ r.showing <= TOP_TRACKS_LIMIT
            /\ r.total = Len(res)
            /\ s.total = Len(res)
            /\ s.showing = r.showing
            /\ s.topArtists = getTopArtists(res, TOP_ARTISTS_LIMIT)
            /\ s.topAlbums = getTopAlbums(res, TOP_ALBUMS_LIMIT)
            /\ s.bpmStats = getBpmStats(res)
            /\ \A j \in 1..Len(s.topArtists) :
                 s.topArtists[j].count = Occurrences(res, "artist", s.topArtists[j].artist)
            /\ \A j \in 1..Len(s.topAlbums) :
                 s.topAlbums[j].count = Occurrences(res, "album", s.topAlbums[j].album)
            /\ Has(s.bpmStats) =>
                 \A i \in 1..Len(res) :
                     Has(res[i].bpm) =>
                         /\ 2 * BpmScale * Val(s.bpmStats).min
                              <= 2 * Val(res[i].bpm) + BpmScale
                         /\ 2 * BpmScale * Val(s.bpmStats).max
                              >= 2 * Val(res[i].bpm) - BpmScale

\* a summary of 75 results showing 10: the most frequent artist, "b", and the
\* extreme BPMs belong to tracks that are not among the shown ones
C8_Witness ==
    /\ call.op = "searchMusic"
    /\ call.response.type = "summary"
    /\ call.response.total = 75
    /\ call.response.showing = 10
    /\ call.response.summary.topArtists[1].artist = <<98>>
    /\ \A k \in 1..10 : call.response.topTracks[k].artist # Some(<<98>>)
    /\ getBpmStats(call.response.topTracks) # call.response.summary.bpmStats

\* C9 as stated: every query tool (searchMusic, filterByBpm, filterByArtist,
\* filterByAlbum, sortResults) returns a 'summary' response when its result
\* set has more than T_summary tracks and a grouped 'full' response when it
\* has between T_grouped + 1 and T_summary tracks.
C9_EveryToolShaped ==
    call.op \in QueryTools =>
        LET n == Len(call.results)
            r == call.response
        IN  /\ n > SUMMARY_THRESHOLD => r.type = "summary"
            /\ (n > GROUPED_THRESHOLD /\ n <= SUMMARY_THRESHOLD) =>
                 r.type = "full" /\ IsGrouped(r)

\* C9 as amended: the response is a function of the tool's kind and its result
\* set only.  searchMusic and filterByBpm return a 'summary' response above
\* T_summary tracks and a grouped 'full' response from T_grouped + 1 to
\* T_summary tracks; filterByArtist, filterByAlbum and sortResults return, at
\* every size, a 'full' response with the total and all the tracks and no
\* grouped flag.
C9_ShapedOrAlwaysFull ==
    call.op \in QueryTools =>
        LET n == Len(call.results)
            r == call.response
        IN  IF call.op \in ShapedTools
            THEN /\ n > SUMMARY_THRESHOLD => r.type = "summary"
                 /\ (n > GROUPED_THRESHOLD /\ n <= SUMMARY_THRESHOLD) =>
                      r.type = "full" /\ IsGrouped(r)
                 /\ r.total = n
            ELSE /\ r.type = "full"
                 /\ r.total = n
                 /\ r.tracks = call.results
                 /\ DOMAIN r = {"type", "total", "tracks"}

\* filterByArtist with more than 50 results, answered in full and ungrouped
C9_Witness ==
    /\ call.op = "filterByArtist"
    /\ Len(call.results) > SUMMARY_THRESHOLD
    /\ call.response.type = "full"
    /\ Len(call.response.tracks) = Len(call.results)
    /\ "grouped" \notin DOMAIN call.response

\* C10: the collection and the index are replaced together: no reachable state
\* has SearchEngine.tracks and the index built from different collections, and
\* a query that began while the scan was in flight returns what the complete
\* old pair (empty, before the completion handler) or the complete new pair
\* (the scanned library, after it) gives.
C10_PairSwappedTogether ==
    /\ fuse = tracks
    /\ (scan # "resolved") => (tracks = <<>> /\ fuse = <<>>)
    /\ (call.op \in QueryTools /\ call.ran # "resolved") => call.results = <<>>
    /\ (call.op = "searchMusic" /\ call.ran = "resolved") =>
         /\ scan = "resolved"
         /\ call.results = search(tracks, call.inv.query)
         /\ call.results = search(fuse, call.inv.query)
    /\ (call.op = "filterByBpm" /\ call.ran = "resolved") =>
         /\ call.results = filterByBpm(tracks, call.inv.min, call.inv.max)
         /\ call.results = filterByBpm(fuse, call.inv.min, call.inv.max)

\* a search that began while the scan was in flight and ran after the
\* completion handler: it finds tracks of the new collection through the new
\* index
C10_Witness ==
    /\ call.op = "searchMusic"
    /\ call.began = "inflight"
    /\ call.ran = "resolved"
    /\ Len(tracks) > 0
    /\ fuse = tracks
    /\ Len(call.results) = Len(tracks)

\* every tool of the conversational layer
AllTools == QueryTools \cup {"addToSetlist", "playMusic"}

\* the answers that carry no track
EmptyResponses == {FullResponse(<<>>), [error |-> "Track not found"]}

\* C11: from the first getMusicStore call until the scan resolves the store
\* holds an empty collection and an empty index, and every search, filter,
\* getAllTracks and by-id lookup run in that interval returns no tracks (an
\* empty list or a not-found result) instead of failing.
C11_EmptyUntilScanResolves ==
    /\ (musicManager = "created" /\ scan # "resolved") =>
         (tracks = <<>> /\ fuse = <<>> /\ getAllTracks = <<>>)
    /\ (call.op \in AllTools /\ call.ran # "resolved") =>
         /\ call.snapshot = <<>>
         /\ call.results = <<>>
         /\ call.response \in EmptyResponses
         /\ call.op \in QueryTools => call.response = FullResponse(<<>>)
         /\ call.op \notin QueryTools => call.response = [error |-> "Track not found"]

\* a by-id lookup run while the scan is in flight: not found
C11_Witness ==
    /\ call.op = "playMusic"
    /\ call.inv.trackId = 1
    /\ call.ran = "inflight"
    /\ scan = "inflight"
    /\ call.response = [error |-> "Track not found"]

\* C12: getMusicStore and the queries never wait for the scan: while the scan
\* is in flight a getMusicStore call returns the store at once, and a query
\* that has begun can complete in every such state.
C12_NeverWaitsForScan ==
    /\ (scan = "inflight" /\ pending = None) =>
         (ENABLED GetMusicStore /\ ENABLED ToolBegin)
    /\ (scan = "inflight" /\ pending # None) => ENABLED ToolRun
    /\ (call.op = "getMusicStore" /\ call.during = "inflight") =>
         call.store = StoreOf(OneOfEach)

\* a query that began and completed while the scan was still in flight
C12_Witness ==
    /\ call.op = "searchMusic"
    /\ call.began = "inflight"
    /\ call.ran = "inflight"
    /\ scan = "inflight"

\* C13: when the background scan fails the failure is logged and the store
\* stays installed with an empty collection and index: later getMusicStore
\* calls return the manager and the engine, and queries return empty results.
\* (No statement of the try block of getMusicStore can throw: the two
\* constructors only assign, and scanDirectory is async.)
C13_ScanFailureLeavesEmptyStore ==
    scan = "rejected" =>
        /\ <<"Background scan failed", <<>>>> \in log
        /\ musicManager = "created"
        /\ created = OneOfEach
        /\ tracks = <<>>
        /\ fuse = <<>>
        /\ pending = None => (ENABLED GetMusicStore /\ ENABLED ToolBegin)
        /\ pending # None => ENABLED ToolRun
        /\ (call.op = "getMusicStore" /\ call.during = "rejected") =>
             call.store = StoreOf(OneOfEach)
        /\ (call.op \in AllTools /\ call.ran = "rejected") =>
             /\ call.store = StoreOf(OneOfEach)
             /\ call.results = <<>>
             /\ call.response \in EmptyResponses

\* a search begun and run after the scan failed: empty, and the failure logged
C13_Witness ==
    /\ scan = "rejected"
    /\ call.op = "searchMusic"
    /\ call.began = "rejected"
    /\ call.ran = "rejected"
    /\ call.response = FullResponse(<<>>)
    /\ <<"Background scan failed", <<>>>> \in log

\* C14: the store is a lazily created process-wide singleton: across any
\* number and interleaving of getMusicStore calls exactly one MusicManager and
\* one SearchEngine are created, at most one scan is started, and every call
\* returns those same two instances.
C14_LazySingleton ==
    /\ created.managers <= 1
    /\ created.engines <= 1
    /\ created.scans <= 1
    /\ musicManager = "undefined" => (created = NoInstances /\ scan = "none")
    /\ musicManager = "created" => (created = OneOfEach /\ scan # "none")
    /\ pending # None => Val(pending).store = StoreOf(OneOfEach)
    /\ call.op = "getMusicStore" => call.store = StoreOf(OneOfEach)
    /\ call.op \in AllTools => call.store = StoreOf(OneOfEach)

\* a getMusicStore call made after the scan resolved (so not the first one)
\* returns the instances the first call created
C14_Witness ==
    /\ call.op = "getMusicStore"
    /\ call.during = "resolved"
    /\ call.store = StoreOf(OneOfEach)
    /\ created = OneOfEach
    /\ Len(tracks) > 0

\* the ids of a list of tracks
IdsOf(ts) == {ts[k].id : k \in 1..Len(ts)}

\* the tracks a response lists
ListedTracks(r) ==
    IF r.type = "summary" THEN r.topTracks ELSE r.tracks

\* C15: the track list a query tool returns and the aggregates that go with
\* it come from one snapshot of the collection, also when the tool began
\* before the scan's completion handler and ran after it: every listed track
\* is one of the tracks the aggregates were computed over, and those are
\* tracks of the one collection the query ran against.
C15_OneSnapshot ==
    call.op \in QueryTools =>
        LET r == call.response
        IN  /\ call.snapshot = (IF call.ran = "resolved" THEN tracks ELSE <<>>)
            /\ IdsOf(call.results) \subseteq IdsOf(call.snapshot)
            /\ \A k \in 1..Len(call.results) :
                 \E i \in 1..Len(call.snapshot) : call.results[k] = call.snapshot[i]
            /\ IdsOf(ListedTracks(r)) \subseteq IdsOf(call.results)
            /\ r.type = "summary" =>
                 /\ r.summary.topArtists = getTopArtists(call.results, TOP_ARTISTS_LIMIT)
                 /\ r.summary.topAlbums = getTopAlbums(call.results, TOP_ALBUMS_LIMIT)
                 /\ r.summary.bpmStats = getBpmStats(call.results)
                 /\ \A j \in 1..Len(r.summary.topArtists) :
                      \E i \in 1..Len(call.snapshot) :
                          call.snapshot[i].artist = Some(r.summary.topArtists[j].artist)

\* a BPM filter that began while the scan was in flight, ran after the swap
\* and answered with a summary of part of the new collection
C15_Witness ==
    /\ call.op = "filterByBpm"
    /\ call.began = "inflight"
    /\ call.ran = "resolved"
    /\ call.response.type = "summary"
    /\ Len(call.results) < Len(call.snapshot)
    /\ call.snapshot = tracks

\* C16: after the constructor or setTracks the index is built from exactly
\* the new collection before any search runs: in every reachable state the
\* tracks indexed equal the tracks getAllTracks returns, and search never
\* returns a track that is not in the current collection.
C16_IndexMatchesCollection ==
    /\ Len(fuse) = Len(getAllTracks)
    /\ {fuse[i] : i \in 1..Len(fuse)} = {getAllTracks[i] : i \in 1..Len(getAllTracks)}
    /\ call.op = "searchMusic" =>
         \A k \in 1..Len(call.results) :
             \E i \in 1..Len(call.snapshot) : call.results[k] = call.snapshot[i]
    /\ (pending # None /\ Val(pending).inv.tool = "searchMusic") =>
         IdsOf(search(fuse, Val(pending).inv.query)) \subseteq IdsOf(getAllTracks)

\* a search over the scanned collection that matches some of its tracks and
\* not others
C16_Witness ==
    /\ call.op = "searchMusic"
    /\ call.ran = "resolved"
    /\ Len(call.results) > 0
    /\ Len(call.results) < Len(getAllTracks)
    /\ call.snapshot = getAllTracks

(***************************************************************************)
(* SpecScan: the background scan of getMusicStore in detail.  The state    *)
(* starts where the first getMusicStore call left it: the store installed  *)
(* over [], and scanDirectory suspended at `await fs.access(rootDir)`.     *)
(* Each action is the completion of one file-system read, followed by all  *)
(* the code it resumes; when the last read of the tree completes, that is  *)
(* the return of scanDirectory and the .then handler of the store.  The    *)
(* environment decides which reads succeed, in which order they complete,  *)
(* and which parseFile calls (at most MaxHung) never complete.             *)
(***************************************************************************)
MaxHung == 1        \* files whose read never completes

\* metadata.common of a file: the files of music/a carry tags, the others none
TagsOf(path) ==
    IF Len(path) >= 2 /\ path[2] = NameA
    THEN [title |-> Some(<<116>>), artist |-> Some(<<120>>), album |-> Some(<<121>>),
          bpm |-> Some(256)]
    ELSE [title |-> None, artist |-> None, album |-> None, bpm |-> None]

\* a plausible slip: id: entry.name instead of id: fullPath
ParsedTrackNamedById(path) ==
    LET common == TagsOf(path)
        name == path[Len(path)]
    IN  [Track(path, name, IF TruthyStr(common.title) THEN common.title ELSE Some(name),
               common.artist, common.album, common.bpm, None, None)
           EXCEPT !.id = name]

\* the object pushed for a parsed file: title: common.title || entry.name
ParsedTrack(path) ==
    LET common == TagsOf(path)
        name == path[Len(path)]
    IN  Track(path, name, IF TruthyStr(common.title) THEN common.title ELSE Some(name),
              common.artist, common.album, common.bpm, None, None)

\* scan(dir) has completed: its readdir failed, or it succeeded and every
\* promise of filePromises is fulfilled (Promise.all)
RECURSIVE ScanSettled(_, _)
ScanSettled(sc, dir) ==
    \/ sc.dir[dir] = "failed"
    \/ /\ sc.dir[dir] = "read"
       /\ \A f \in Mp3FilesOf(dir) : sc.file[f] \in {"parsed", "failed"}
       /\ \A sub \in SubDirsOf(dir) : ScanSettled(sc, sub)

\* a plausible slip: `await Promise.all(filePromises)` left out, so that
\* scan(dir) completes as soon as its readdir has
ResumeUnjoined(sc) ==
    IF sc.phase = "scanning" /\ sc.dir[rootDir] \in {"read", "failed"}
    THEN /\ scanner' = [sc EXCEPT !.phase = "resolved", !.result = Some(sc.tracks)]
         /\ setTracks(sc.tracks)
         /\ scan' = "resolved"
    ELSE /\ scanner' = sc
         /\ tracks' = (IF sc.phase = "resolved" THEN sc.tracks ELSE tracks)
         /\ UNCHANGED <<fuse, scan>>

\* what runs after a read completes and leaves the scanner as sc: when
\* scan(rootDir) has completed, scanDirectory returns tracks and the store's
\* .then handler installs them (result keeps the list as it was returned).
\* setTracks keeps the very array the scanner pushes to, so a push after the
\* return would show in the collection and not in the index.
Resume(sc) ==
    IF sc.phase = "scanning" /\ ScanSettled(sc, rootDir)
    THEN /\ scanner' = [sc EXCEPT !.phase = "resolved", !.result = Some(sc.tracks)]
         /\ setTracks(sc.tracks)
         /\ scan' = "resolved"
    ELSE /\ scanner' = sc
         /\ tracks' = (IF sc.phase = "resolved" THEN sc.tracks ELSE tracks)
         /\ UNCHANGED <<fuse, scan>>

InitScan ==
    \E hung \in {h \in SUBSET Mp3Files : Cardinality(h) <= MaxHung} :
        /\ musicManager = "created"
        /\ tracks = <<>>
        /\ fuse = <<>>
        /\ scan = "inflight"
        /\ pending = None
        /\ call = Idle
        /\ created = OneOfEach
        /\ log = {}
        /\ scanner = [ScannerIdle EXCEPT !.phase = "access", !.hung = hung]
        /\ setlist = <<>>
        /\ localStorage = None
        /\ currentTrack = None

\* a plausible slip: fs.access awaited outside a try/catch, so that its
\* rejection rejects scanDirectory and reaches the store's catch handler
AccessFailRejects ==
    /\ scanner.phase = "access"
    /\ log' = log \cup {<<"Background scan failed", <<>>>>}
    /\ scanner' = [scanner EXCEPT !.phase = "rejected"]
    /\ scan' = "rejected"
    /\ UNCHANGED <<musicManager, tracks, fuse, pending, call, created, home>>

\* a plausible slip: the warning written and the scan started all the same
AccessFailIgnored ==
    /\ scanner.phase = "access"
    /\ log' = log \cup {<<"Music directory not found", rootDir>>}
    /\ scanner' = [scanner EXCEPT !.phase = "scanning", !.dir[rootDir] = "reading"]
    /\ UNCHANGED <<musicManager, tracks, fuse, scan, pending, call, created, home>>

\* fs.access(rootDir) rejects: console.warn, return []
AccessFail ==
    /\ scanner.phase = "access"
    /\ log' = log \cup {<<"Music directory not found", rootDir>>}
    /\ scanner' = [scanner EXCEPT !.phase = "resolved", !.result = Some(<<>>)]
    /\ setTracks(<<>>)
    /\ scan' = "resolved"
    /\ UNCHANGED <<musicManager, pending, call, created, home>>

\* fs.access(rootDir) resolves: scan(rootDir) is called and starts its readdir
AccessOk ==
    /\ scanner.phase = "access"
    /\ scanner' = [scanner EXCEPT !.phase = "scanning", !.dir[rootDir] = "reading"]
    /\ UNCHANGED <<musicManager, tracks, fuse, scan, pending, call, created, log, home>>

\* fs.readdir(dir) resolves: entries.map starts scan(sub) for every directory
\* and parseFile for every MP3 file, then awaits Promise.all
ReaddirOk(dir) ==
    /\ scanner.dir[dir] = "reading"
    /\ Resume([scanner EXCEPT
          !.dir = [d \in Dirs |->
                     IF d = dir THEN "read"
                     ELSE IF d \in SubDirsOf(dir) THEN "reading"
                     ELSE scanner.dir[d]],
          !.file = [f \in Mp3Files |->
                      IF f \in Mp3FilesOf(dir) THEN "parsing" ELSE scanner.file[f]]])
    /\ UNCHANGED <<musicManager, pending, call, created, log, home>>

\* a plausible slip: the failure of scan(sub) rethrown, so that the parent's
\* Promise.all rejects and the parent's catch ends the parent's scan
ReaddirFailEndsParent(dir) ==
    /\ scanner.dir[dir] = "reading"
    /\ log' = log \cup {<<"Error scanning directory", dir>>}
    /\ Resume([scanner EXCEPT
          !.dir = [d \in Dirs |->
                     IF d = dir \/ dir \in SubDirsOf(d) THEN "failed"
                     ELSE scanner.dir[d]]])
    /\ UNCHANGED <<musicManager, pending, call, created, home>>

\* fs.readdir(dir) rejects: catch (e) { console.error(...) } ends scan(dir)
ReaddirFail(dir) ==
    /\ scanner.dir[dir] = "reading"
    /\ log' = log \cup {<<"Error scanning directory", dir>>}
    /\ Resume([scanner EXCEPT !.dir[dir] = "failed"])
    /\ UNCHANGED <<musicManager, pending, call, created, home>>

\* parseFile(fullPath) resolves: tracks.push({...})
ParseOk(file) ==
    /\ scanner.file[file] = "parsing"
    /\ file \notin scanner.hung
    /\ Resume([scanner EXCEPT !.file[file] = "parsed",
                              !.tracks = Append(scanner.tracks, ParsedTrack(file))])
    /\ UNCHANGED <<musicManager, pending, call, created, log, home>>

\* a plausible slip: the file's try/catch left out, so that the rejection
\* reaches the catch of scan(dir) and from there on nothing is awaited
ParseFailEndsScan(file) ==
    /\ scanner.file[file] = "parsing"
    /\ file \notin scanner.hung
    /\ log' = log \cup {<<"Error scanning directory", SubSeq(file, 1, Len(file) - 1)>>}
    /\ Resume([scanner EXCEPT
          !.file[file] = "failed",
          !.dir = [d \in Dirs |->
                     IF file \in Mp3FilesOf(d) THEN "failed" ELSE scanner.dir[d]]])
    /\ UNCHANGED <<musicManager, pending, call, created, home>>

\* parseFile(fullPath) rejects: catch (error) { console.error(...) }
ParseFail(file) ==
    /\ scanner.file[file] = "parsing"
    /\ file \notin scanner.hung
    /\ log' = log \cup {<<"Failed to parse", file>>}
    /\ Resume([scanner EXCEPT !.file[file] = "failed"])
    /\ UNCHANGED <<musicManager, pending, call, created, home>>

NextScan ==
    \/ AccessFail
    \/ AccessOk
    \/ \E dir \in Dirs : ReaddirOk(dir)
    \/ \E dir \in Dirs : ReaddirFail(dir)
    \/ \E file \in Mp3Files : ParseOk(file)
    \/ \E file \in Mp3Files : ParseFail(file)

SpecScan == InitScan /\ [][NextScan]_vars

\* every read that can complete does complete
SpecScanFair == SpecScan /\ WF_vars(NextScan)

\* dir is path itself or one of the directories above it
IsPrefix(dir, path) ==
    Len(dir) <= Len(path) /\ SubSeq(path, 1, Len(dir)) = dir

\* the warning of a root that cannot be accessed has been written
RootMissing == <<"Music directory not found", rootDir>> \in log

\* scanDirectory has returned after walking the tree
ScanReturned == scanner.result # None /\ ~RootMissing

\* C17: scanDirectory on a root that does not exist or is not accessible
\* resolves to the empty collection and raises no error, without any directory
\* read or file extraction being attempted.
C17_MissingRootYieldsEmpty ==
    RootMissing =>
        /\ scanner.phase = "resolved"
        /\ scanner.result = Some(<<>>)
        /\ scanner.tracks = <<>>
        /\ \A d \in Dirs : scanner.dir[d] = "idle"
        /\ \A f \in Mp3Files : scanner.file[f] = "idle"
        /\ scan = "resolved"
        /\ tracks = <<>>
        /\ log = {<<"Music directory not found", rootDir>>}

\* the access to the root failed and the scan has resolved to []
C17_Witness ==
    /\ RootMissing
    /\ scanner.result = Some(<<>>)
    /\ scan = "resolved"
    /\ scanner.dir[rootDir] = "idle"

\* C18: a metadata-extraction failure on one file omits only that file: the
\* scan result holds a track for every other MP3 file under the root whose
\* extraction succeeds, whatever subset of the files fails and in whatever
\* order the extractions complete.
C18_FailedFileOmittedAlone ==
    /\ scan # "rejected"
    /\ IdsOf(scanner.tracks) = {f \in Mp3Files : scanner.file[f] = "parsed"}
    /\ Len(scanner.tracks) = Cardinality(IdsOf(scanner.tracks))
    /\ \A f \in Mp3Files :
         (<<"Failed to parse", f>> \in log) <=> (scanner.file[f] = "failed")
    /\ ScanReturned =>
         /\ scanner.result = Some(scanner.tracks)
         /\ tracks = scanner.tracks
         /\ \A d \in Dirs : scanner.dir[d] # "reading"
         /\ \A f \in Mp3Files :
              /\ scanner.file[f] # "parsing"
              /\ (/\ scanner.file[f] # "failed"
                  /\ \A d \in Dirs :
                       IsPrefix(d, f) => <<"Error scanning directory", d>> \notin log)
                 => f \in IdsOf(tracks)

\* a scan of the whole tree in which only 2.mp3 failed: the other four files
\* are in the result, 4.mp3 (the deepest) first
C18_Witness ==
    /\ ScanReturned
    /\ {f \in Mp3Files : scanner.file[f] = "failed"} = {<<NameMusic, NameA, Name2Mp3>>}
    /\ Len(tracks) = 4
    /\ tracks[1].id = <<NameMusic, NameA, NameC, Name4Mp3>>
    /\ tracks[1].title = Some(<<116>>)
    /\ tracks[4].title = Some(Name1Mp3)

\* C19: a directory-read failure on one subdirectory loses only the tracks
\* under that subdirectory: its siblings and the files of its parent are
\* still scanned to completion and their tracks are in the result.
C19_FailedSubdirLosesOnlyItsTracks ==
    ScanReturned =>
        \A d \in Dirs :
            /\ scanner.dir[d] # "reading"
            /\ (scanner.dir[d] = "idle") <=>
                 (\E a \in Dirs : a # d /\ IsPrefix(a, d) /\ scanner.dir[a] = "failed")
            /\ (scanner.dir[d] = "failed") <=> (<<"Error scanning directory", d>> \in log)
            /\ scanner.dir[d] = "failed" =>
                 \A k \in 1..Len(tracks) : ~IsPrefix(d, tracks[k].id)
            /\ scanner.dir[d] = "read" =>
                 /\ \A f \in Mp3FilesOf(d) :
                      /\ scanner.file[f] \in {"parsed", "failed"}
                      /\ scanner.file[f] = "parsed" => f \in IdsOf(tracks)
                 /\ \A sub \in SubDirsOf(d) : scanner.dir[sub] \in {"read", "failed"}

\* the read of music/a failed: nothing of music/a or music/a/c is in the
\* result, 1.mp3 of the parent and 5.mp3 of the sibling music/b are
C19_Witness ==
    /\ ScanReturned
    /\ scanner.dir[<<NameMusic, NameA>>] = "failed"
    /\ scanner.dir[<<NameMusic, NameB>>] = "read"
    /\ IdsOf(tracks) = {<<NameMusic, Name1Mp3>>, <<NameMusic, NameB, Name5Mp3>>}

\* C20: a file read that never completes stalls only that file's branch:
\* scanDirectory still resolves, and the store receives the tracks of all the
\* other files.
C20_HungReadStallsOnlyItsBranch ==
    <>(/\ scanner.result # None
       /\ scan = "resolved"
       /\ IdsOf(tracks) = {f \in Mp3Files : scanner.file[f] = "parsed"})

\* the names of a path joined with '/'
RECURSIVE JoinNames(_)
JoinNames(names) ==
    IF names = <<>> THEN <<>>
    ELSE IF Len(names) = 1 THEN names[1]
    ELSE names[1] \o <<47>> \o JoinNames(Tail(names))

\* the directory a file is in, and that directory relative to the scan root
ParentOf(path) == SubSeq(path, 1, Len(path) - 1)
RelativeTo(root, dir) == SubSeq(dir, Len(root) + 1, Len(dir))

\* C21: every track the scanner produces carries the name of its immediate
\* parent folder (folder) and the folder path relative to the scan root
\* (folderPath, empty or the base name for the root itself), so that
\* filterByFolder and filterByFolderPath over a scanned collection return the
\* tracks located in a matching folder.
C21_ScannerSetsFolders ==
    ScanReturned =>
        \A k \in 1..Len(tracks) :
            LET dir == ParentOf(tracks[k].id)
                name == dir[Len(dir)]
                rel == JoinNames(RelativeTo(rootDir, dir))
            IN  /\ tracks[k].folder = Some(name)
                /\ IF dir = rootDir
                   THEN tracks[k].folderPath \in {Some(<<>>), Some(name)}
                   ELSE tracks[k].folderPath = Some(rel)
                /\ \E j \in 1..Len(filterByFolder(tracks, name)) :
                     filterByFolder(tracks, name)[j] = tracks[k]
                /\ \E j \in 1..Len(filterByFolderPath(tracks, rel)) :
                     filterByFolderPath(tracks, rel)[j] = tracks[k]

\* C22: every track of every collection the store holds has id equal to
\* filePath, both non-empty, and no two tracks of one scan result share an id.
C22_IdIsFilePathAndUnique ==
    /\ \A k \in 1..Len(tracks) :
         /\ tracks[k].id = tracks[k].filePath
         /\ tracks[k].id # <<>>
         /\ tracks[k].id \in Mp3Files
    /\ \A k \in 1..Len(scanner.tracks) :
         /\ scanner.tracks[k].id = scanner.tracks[k].filePath
         /\ scanner.tracks[k].id # <<>>
    /\ \A j \in 1..Len(scanner.tracks), k \in 1..Len(scanner.tracks) :
         j # k => scanner.tracks[j].id # scanner.tracks[k].id
    /\ \A j \in 1..Len(tracks), k \in 1..Len(tracks) :
         j # k => tracks[j].id # tracks[k].id

\* the store holds the result of a scan in which all five files parsed
C22_Witness ==
    /\ ScanReturned
    /\ Len(tracks) = 5
    /\ IdsOf(tracks) = Mp3Files

\* C23: addToSetlist and playMusic, given an id that matches no track of the
\* current collection (any id while the collection is still empty), return
\* {error: 'Track not found'}; given an id that matches, they return
\* {action, track} with track.id equal to the requested id.
C23_LookupByIdFoundOrNotFound ==
    call.op \in {"addToSetlist", "playMusic"} =>
        LET id == call.inv.trackId
            matches == {i \in 1..Len(call.snapshot) : call.snapshot[i].id = id}
            r == call.response
        IN  /\ matches = {} => r = [error |-> "Track not found"]
            /\ call.snapshot = <<>> => r = [error |-> "Track not found"]
            /\ matches # {} =>
                 /\ DOMAIN r = {"action", "track"}
                 /\ r.action = (IF call.op = "addToSetlist" THEN "add" ELSE "play")
                 /\ r.track.id = id
                 /\ \E i \in matches : r.track = call.snapshot[i]

\* playMusic of an id of the scanned collection: the track is returned
C23_Witness ==
    /\ call.op = "playMusic"
    /\ call.ran = "resolved"
    /\ call.inv.trackId = 1
    /\ Len(call.snapshot) > 0
    /\ call.response = [action |-> "play", track |-> call.snapshot[1]]

\* C24: scanDirectory resolves only after every file extraction and every
\* subdirectory scan started under the root has finished: once it has
\* resolved no read is in flight, no track is appended any more, and the
\* collection handed to setTracks is the one the store still holds.
C24_ResolvesAfterEveryRead ==
    scanner.result # None =>
        /\ \A f \in Mp3Files : scanner.file[f] # "parsing"
        /\ \A d \in Dirs : scanner.dir[d] # "reading"
        /\ scanner.tracks = Val(scanner.result)
        /\ tracks = Val(scanner.result)
        /\ fuse = tracks

\* a scan that returned after the read of music/a/c failed and the four
\* files elsewhere parsed
C24_Witness ==
    /\ ScanReturned
    /\ scanner.dir[<<NameMusic, NameA, NameC>>] = "failed"
    /\ Len(Val(scanner.result)) = 4
    /\ tracks = Val(scanner.result)

\* no read of the scan is in flight
NoReadPending ==
    /\ scanner.phase # "access"
    /\ \A f \in Mp3Files : scanner.file[f] # "parsing"
    /\ \A d \in Dirs : scanner.dir[d] # "reading"

\* C25: scanDirectory never rejects: for every combination of a missing root,
\* directory-read failures and per-file extraction failures it resolves with a
\* (possibly smaller or empty) track list, and no scan error reaches the
\* store's catch handler.
C25_ScanNeverRejects ==
    /\ scan # "rejected"
    /\ scanner.phase # "rejected"
    /\ <<"Background scan failed", <<>>>> \notin log
    /\ NoReadPending =>
         /\ scanner.result # None
         /\ scan = "resolved"
         /\ tracks = Val(scanner.result)
         /\ IdsOf(tracks) \subseteq {f \in Mp3Files : scanner.file[f] = "parsed"}

\* the read of music/b and the extraction of 1.mp3 both failed: the scan
\* resolved with the three tracks of music/a
C25_Witness ==
    /\ scan = "resolved"
    /\ scanner.dir[<<NameMusic, NameB>>] = "failed"
    /\ scanner.file[<<NameMusic, Name1Mp3>>] = "failed"
    /\ Len(tracks) = 3
    /\ <<"Error scanning directory", <<NameMusic, NameB>>>> \in log

\* the field a sort is by, as the track holds it
SortField(t, sortBy) ==
    CASE sortBy = "title" -> t.title
      [] sortBy = "artist" -> t.artist
      [] sortBy = "album" -> t.album
      [] sortBy = "bpm" -> t.bpm

\* the track has a non-empty string, or a positive BPM, in the field
HasPositiveKey(t, sortBy) ==
    /\ Has(SortField(t, sortBy))
    /\ IF sortBy = "bpm" THEN Val(SortField(t, sortBy)) > 0
       ELSE Val(SortField(t, sortBy)) # <<>>

\* the key the sort is specified to compare: the case-folded string with ''
\* for a missing one, the BPM with 0 for a missing one
FoldedKey(t, sortBy) ==
    LET o == SortField(t, sortBy)
    IN  IF sortBy = "bpm" THEN (IF Has(o) THEN Val(o) ELSE 0)
        ELSE (IF Has(o) THEN toLowerCase(Val(o)) ELSE <<>>)

\* C26: sortTracks compares string fields case-insensitively with a missing
\* title/artist/album as the empty string, and BPMs with a missing BPM as 0:
\* ascending, the tracks with a missing key come before every track with a
\* non-empty string key or a positive BPM; descending, after them.
C26_MissingKeysSortAsEmpty ==
    call.op = "sortTracks" =>
        LET out == call.out
            f == call.sortBy
            asc == call.order = "asc"
        IN  \A i \in 1..Len(out), j \in 1..Len(out) :
                /\ (~Has(SortField(out[i], f)) /\ HasPositiveKey(out[j], f)) =>
                     (IF asc THEN i < j ELSE j < i)
                /\ (i < j /\ f = "bpm") =>
                     (IF asc THEN FoldedKey(out[i], f) <= FoldedKey(out[j], f)
                      ELSE FoldedKey(out[i], f) >= FoldedKey(out[j], f))
                /\ (i < j /\ f # "bpm") =>
                     (IF asc THEN ~StrLess(FoldedKey(out[j], f), FoldedKey(out[i], f))
                      ELSE ~StrLess(FoldedKey(out[i], f), FoldedKey(out[j], f)))

\* an ascending sort by title of "B", "a" and a track without title: the
\* track without title first, then "a", then "B"
C26_Witness ==
    /\ call.op = "sortTracks"
    /\ call.sortBy = "title"
    /\ call.order = "asc"
    /\ Len(call.input) = 3
    /\ call.input[1].title = Some(<<66>>)
    /\ call.input[2].title = Some(<<97>>)
    /\ call.input[3].title = None
    /\ call.out = <<call.input[3], call.input[2], call.input[1]>>

(***************************************************************************)
(* SpecQueries: every operation of SearchEngine, in any order, over        *)
(* collections of at most MaxTracks tracks of three kinds.                 *)
(***************************************************************************)
QueryTrack(i, kind) ==
    CASE kind = 1 -> Track(i, <<102>>, Some(<<98>>), Some(<<120>>), None, Some(3),
                           Some(StrTrance), None)
      [] kind = 2 -> Track(i, <<102>>, Some(<<65>>), None, Some(<<121>>), None,
                           None, Some(StrGenresEurodance))
      [] kind = 3 -> Track(i, <<102>>, Some(<<97>>), Some(<<88>>), Some(<<121>>), Some(1),
                           Some(StrEurodanceBrazil), Some(StrGenresEurodance))

QueryCollections ==
    UNION {{[i \in 1..n |-> QueryTrack(i, v[i])] : v \in [1..n -> 1..3]}
           : n \in 0..MaxTracks}

InitQueries == \E ts \in QueryCollections : EngineOver(ts)

EngineSearch ==
    \E query \in {<<97>>, <<120>>, <<84, 82>>} :
        /\ call' = [op |-> "search", query |-> query, out |-> search(fuse, query)]
        /\ UNCHANGED <<musicManager, tracks, fuse, scan, pending, created, log, scanner, home>>

EngineGetAllTracks ==
    /\ call' = [op |-> "getAllTracks", out |-> getAllTracks]
    /\ UNCHANGED <<musicManager, tracks, fuse, scan, pending, created, log, scanner, home>>

EngineSetTracks ==
    \E newTracks \in QueryCollections :
        /\ setTracks(newTracks)
        /\ call' = [op |-> "setTracks", input |-> newTracks]
        /\ UNCHANGED <<musicManager, scan, pending, created, log, scanner, home>>

NextQueries ==
    \/ EngineSearch
    \/ EngineFilterByBpm
    \/ EngineFilterByArtist
    \/ EngineFilterByAlbum
    \/ EngineFilterByFolder
    \/ EngineFilterByFolderPath
    \/ EngineGetTopFolders
    \/ EngineGetTopArtists
    \/ EngineGetTopAlbums
    \/ EngineGetBpmStats
    \/ EngineSortTracks
    \/ EngineGetAllTracks
    \/ EngineSetTracks

SpecQueries == InitQueries /\ [][NextQueries]_vars

\* out holds the tracks of inp, each as often as inp does (ids identify them)
IsPermutation(out, inp) ==
    /\ Len(out) = Len(inp)
    /\ \A i \in 1..Len(inp) :
         Cardinality({k \in 1..Len(out) : out[k] = inp[i]})
           = Cardinality({k \in 1..Len(inp) : inp[k] = inp[i]})

\* C27: every query operation (search, the filters, getTop*, getBpmStats,
\* sortTracks, getAllTracks) leaves the backing collection and the index
\* unchanged, sortTracks leaves its input array unchanged and returns a
\* permutation of it, and only setTracks changes the collection.
C27_QueriesReadOnly ==
    [][/\ call'.op # "setTracks" => (tracks' = tracks /\ fuse' = fuse)
       /\ (tracks' # tracks \/ fuse' # fuse) =>
            (call'.op = "setTracks" /\ tracks' = call'.input /\ fuse' = call'.input)
       /\ call'.op = "sortTracks" =>
            /\ call'.input = tracks
            /\ tracks' = call'.input
            /\ IsPermutation(call'.out, call'.input)]_vars

\* a sort that reordered its result while the collection and the index kept
\* the order they had
C27_Witness ==
    /\ call.op = "sortTracks"
    /\ call.out # call.input
    /\ Len(call.input) = 3
    /\ tracks = call.input
    /\ fuse = call.input

\* the place of a track in a collection
PlaceIn(ts, t) == CHOOSE p \in 1..Len(ts) : ts[p] = t

\* C28: sortResults returns exactly the tracks of the current collection whose
\* id occurs in trackIds, sorted by the requested field and order: ids that
\* match no track are dropped without an error, a track appears once even if
\* its id is repeated, total is the number of tracks returned, and ties keep
\* the order of the collection, not that of trackIds.
C28_SortResultsSelectsAndSorts ==
    call.op = "sortResults" =>
        LET ids == {call.inv.trackIds[k] : k \in 1..Len(call.inv.trackIds)}
            res == call.results
            snap == call.snapshot
            f == call.inv.sortBy
        IN  /\ IdsOf(res) = IdsOf(snap) \cap ids
            /\ \A k \in 1..Len(res) : \E p \in 1..Len(snap) : res[k] = snap[p]
            /\ Len(res) = Cardinality(IdsOf(res))
            /\ call.response = [type |-> "full", total |-> Len(res), tracks |-> res]
            /\ \A i \in 1..Len(res), j \in 1..Len(res) :
                 i < j =>
                   /\ IF f = "bpm"
                      THEN (IF call.inv.order = "asc"
                            THEN FoldedKey(res[i], f) <= FoldedKey(res[j], f)
                            ELSE FoldedKey(res[i], f) >= FoldedKey(res[j], f))
                      ELSE (IF call.inv.order = "asc"
                            THEN ~StrLess(FoldedKey(res[j], f), FoldedKey(res[i], f))
                            ELSE ~StrLess(FoldedKey(res[i], f), FoldedKey(res[j], f)))
                   /\ FoldedKey(res[i], f) = FoldedKey(res[j], f) =>
                        PlaceIn(snap, res[i]) < PlaceIn(snap, res[j])

\* sortResults by artist, ascending, of the ids 3, 1, 3, 0, 12, 2: id 0 is
\* dropped, track 3 is there once, track 12 ("c") comes first and the three
\* tracks of "x" follow in collection order 1, 2, 3
C28_Witness ==
    /\ call.op = "sortResults"
    /\ call.inv.trackIds = <<3, 1, 3, 0, 12, 2>>
    /\ call.inv.sortBy = "artist"
    /\ call.inv.order = "asc"
    /\ [k \in 1..Len(call.results) |-> call.results[k].id] = <<12, 1, 2, 3>>
    /\ call.response.total = 4

\* ---------------------------------------------------------------------------
\* The Home page: the useSetlist hook and the player's next / previous
\* ---------------------------------------------------------------------------

\* how many track ids the page's tracks are drawn from
MaxSetlistIds == 3

\* the store and the scanner, which the page's handlers never touch
engine == <<musicManager, tracks, fuse, scan, pending, created, log, scanner>>

OptionalFields == {"title", "artist", "album", "bpm", "folder", "folderPath"}

TrackFields == {"id", "filePath", "filename"} \cup OptionalFields

\* JSON.stringify of a track: a property whose value is undefined is left out
StringifyTrack(t) ==
    [f \in {g \in TrackFields : g \in OptionalFields => t[g] # None} |->
        IF f \in OptionalFields THEN t[f][1] ELSE t[f]]

\* a parsed track: reading a property the text does not have gives undefined
ParseTrack(o) ==
    [f \in TrackFields |->
        IF f \in OptionalFields
        THEN (IF f \in DOMAIN o THEN Some(o[f]) ELSE None)
        ELSE o[f]]

\* JSON.stringify(updated): the text of the array
JSONStringify(list) ==
    [wellFormed |-> TRUE, items |-> [k \in 1..Len(list) |-> StringifyTrack(list[k])]]

\* a stored item that is not JSON
NotJSON == [wellFormed |-> FALSE, items |-> <<>>]

\* JSON.parse(stored): the array, or None when it throws
JSONParse(item) ==
    IF item.wellFormed
    THEN Some([k \in 1..Len(item.items) |-> ParseTrack(item.items[k])])
    ELSE None

\* the tracks the chat and the setlist view hand to the page: for every id
\* two tracks that differ in their metadata
HomeTracks == {QueryTrack(i, kind) : i \in 1..MaxSetlistIds, kind \in 1..2}

\* the items an earlier session of the page can have left under 'dj-setlist'
StoredItems ==
    {None, Some(NotJSON), Some(JSONStringify(<<>>)),
     Some(JSONStringify(<<QueryTrack(2, 1)>>)),
     Some(JSONStringify(<<QueryTrack(2, 2), QueryTrack(1, 1)>>))}

\* the setlist after the mount effect has read the stored item
Mounted(stored) ==
    IF stored # None /\ JSONParse(stored[1]) # None THEN JSONParse(stored[1])[1] ELSE <<>>

InitHome ==
    \E stored \in StoredItems :
        /\ musicManager = "created"
        /\ tracks = <<>>
        /\ fuse = <<>>
        /\ scan = "resolved"
        /\ pending = None
        /\ call = Idle
        /\ created = OneOfEach
        /\ log = {}
        /\ scanner = ScannerIdle
        /\ setlist = Mounted(stored)
        /\ localStorage = stored
        /\ currentTrack = None

\* the record of a handler call: what the page held when it was called
HomeCall(op, arg) ==
    [op |-> op, arg |-> arg, before |-> setlist, stored |-> localStorage,
     current |-> currentTrack]

\* prev.some((t) => t.id === id)
SomeWithId(list, id) == \E k \in 1..Len(list) : list[k].id = id

\* a plausible slip: addToSetlist without the test for a track already there
AddToSetlistUnchecked(track) ==
    LET updated == Append(setlist, track)
    IN  /\ setlist' = updated
        /\ localStorage' = Some(JSONStringify(updated))
        /\ call' = HomeCall("addToSetlist", Some(track))
        /\ UNCHANGED <<engine, currentTrack>>

AddToSetlist(track) ==
    /\ IF SomeWithId(setlist, track.id)
       THEN UNCHANGED <<setlist, localStorage>>
       ELSE LET updated == Append(setlist, track)
            IN  /\ setlist' = updated
                /\ localStorage' = Some(JSONStringify(updated))
    /\ call' = HomeCall("addToSetlist", Some(track))
    /\ UNCHANGED <<engine, currentTrack>>

RemoveFromSetlist(trackId) ==
    LET updated == SelectSeq(setlist, LAMBDA t : t.id # trackId)
    IN  /\ setlist' = updated
        /\ localStorage' = Some(JSONStringify(updated))
        /\ call' = HomeCall("removeFromSetlist", Some(trackId))
        /\ UNCHANGED <<engine, currentTrack>>

HandlePlay(track) ==
    /\ currentTrack' = Some(track)
    /\ call' = HomeCall("handlePlay", Some(track))
    /\ UNCHANGED <<engine, setlist, localStorage>>

\* Array.prototype.findIndex with t => t.id === id: the 0-based index of the
\* first such element, -1 when there is none
findIndex(list, id) ==
    IF SomeWithId(list, id)
    THEN (CHOOSE k \in 1..Len(list) :
            /\ list[k].id = id
            /\ \A l \in 1..(k - 1) : list[l].id # id) - 1
    ELSE -1

\* setlist[i] for a 0-based index i
At(list, i) == list[i + 1]

\* a plausible slip: handleNext without the currentIndex >= 0 test
HandleNextUnchecked ==
    /\ IF currentTrack = None
       THEN UNCHANGED currentTrack
       ELSE LET currentIndex == findIndex(setlist, currentTrack[1].id)
            IN  IF currentIndex < Len(setlist) - 1
                THEN currentTrack' = Some(At(setlist, currentIndex + 1))
                ELSE UNCHANGED currentTrack
    /\ call' = HomeCall("handleNext", None)
    /\ UNCHANGED <<engine, setlist, localStorage>>

HandleNext ==
    /\ IF currentTrack = None
       THEN UNCHANGED currentTrack
       ELSE LET currentIndex == findIndex(setlist, currentTrack[1].id)
            IN  IF currentIndex >= 0 /\ currentIndex < Len(setlist) - 1
                THEN currentTrack' = Some(At(setlist, currentIndex + 1))
                ELSE UNCHANGED currentTrack
    /\ call' = HomeCall("handleNext", None)
    /\ UNCHANGED <<engine, setlist, localStorage>>

HandlePrev ==
    /\ IF currentTrack = None
       THEN UNCHANGED currentTrack
       ELSE LET currentIndex == findIndex(setlist, currentTrack[1].id)
            IN  IF currentIndex > 0
                THEN currentTrack' = Some(At(setlist, currentIndex - 1))
                ELSE UNCHANGED currentTrack
    /\ call' = HomeCall("handlePrev", None)
    /\ UNCHANGED <<engine, setlist, localStorage>>

NextHome ==
    \/ \E track \in HomeTracks : AddToSetlist(track)
    \/ \E trackId \in 0..MaxSetlistIds : RemoveFromSetlist(trackId)
    \/ \E track \in HomeTracks : HandlePlay(track)
    \/ HandleNext
    \/ HandlePrev

SpecHome == InitHome /\ [][NextHome]_vars

\* the value stored under 'dj-setlist' reads back as the list
StoredEquals(list) ==
    /\ localStorage # None
    /\ JSONParse(localStorage[1]) = Some(list)

\* C29: the setlist never holds two tracks with the same id: adding a track
\* whose id is already there leaves the setlist and the stored copy as they
\* were, a new track goes to the end, removeFromSetlist(id) leaves no track
\* with that id, and after every call that changed the setlist the value
\* stored under 'dj-setlist' equals the setlist.
C29_SetlistUniqueAndPersisted ==
    /\ \A i \in 1..Len(setlist), j \in 1..Len(setlist) :
         i # j => setlist[i].id # setlist[j].id
    /\ call.op = "addToSetlist" =>
         IF call.arg[1].id \in IdsOf(call.before)
         THEN setlist = call.before /\ localStorage = call.stored
         ELSE setlist = call.before \o <<call.arg[1]>>
    /\ call.op = "removeFromSetlist" =>
         /\ call.arg[1] \notin IdsOf(setlist)
         /\ \A t \in HomeTracks :
              t.id # call.arg[1] =>
                 (\E k \in 1..Len(setlist) : setlist[k] = t)
                   <=> (\E k \in 1..Len(call.before) : call.before[k] = t)
    /\ (call.op \in {"addToSetlist", "removeFromSetlist"} /\ setlist # call.before)
         => StoredEquals(setlist)

\* a track is added whose id is in a two-track setlist under other metadata:
\* the setlist and the stored copy stay as they were
C29_Witness ==
    /\ call.op = "addToSetlist"
    /\ Len(call.before) = 2
    /\ call.arg[1].id = call.before[1].id
    /\ call.arg[1] # call.before[1]
    /\ setlist = call.before
    /\ StoredEquals(setlist)

\* the 1-based places of the tracks with the id of the given optional track
PlacesOf(list, cur) ==
    IF cur = None THEN {} ELSE {k \in 1..Len(list) : list[k].id = cur[1].id}

\* C30: handleNext and handlePrev move the current track only to the entry
\* next to it in the setlist: next at the last entry, prev at the first,
\* either with no current track or with a current track that is not in the
\* setlist leave the current track as it was, and a current track that was
\* in the setlist stays in it.
C30_NextPrevStayAdjacent ==
    call.op \in {"handleNext", "handlePrev"} =>
        LET places == PlacesOf(setlist, call.current)
            step == IF call.op = "handleNext" THEN 1 ELSE -1
        IN  /\ setlist = call.before
            /\ places = {} => currentTrack = call.current
            /\ places # {} =>
                 \E p \in places :
                    IF p + step \in 1..Len(setlist)
                    THEN currentTrack = Some(setlist[p + step])
                    ELSE currentTrack = call.current
            /\ places # {} => PlacesOf(setlist, currentTrack) # {}

\* next is pressed while a track played from outside a two-track setlist is
\* current: it stays current
C30_Witness ==
    /\ call.op = "handleNext"
    /\ call.current # None
    /\ Len(setlist) = 2
    /\ PlacesOf(setlist, call.current) = {}
    /\ currentTrack = call.current

====
